---- MODULE Spec2Model ----
(***************************************************************************)
(* Deduplication and consolidation of park listings                        *)
(* (src/src/processing/deduplication.py): AddressNormalizer,               *)
(* GeographicBlocker, DuplicateDetector, MasterRecordBuilder and the       *)
(* driver process_parks_raw_to_master, with the storage session of         *)
(* src/src/database.py; the retry loop of the owner lookup                 *)
(* (src/src/owners/orchestrator.py) and the pipeline routes of the         *)
(* dashboard (src/web/app.py).                                             *)
(*                                                                         *)
(* Conventions.                                                            *)
(*  - Text values are TLA+ strings; the SQL NULL / Python None of a text   *)
(*    column is the sentinel NULL.  A nullable number is <<>> (None) or    *)
(*    <<v>>.                                                               *)
(*  - Coordinates: every modelled point lies on one meridian, so the       *)
(*    great-circle distance of two points is R * |dlat|; a latitude is an  *)
(*    integer number of steps of LatStepMeters metres of arc.              *)
(*  - Scores that the code keeps as floats are exact rationals here,       *)
(*    [num, den] with den > 0.                                             *)
(*  - A DataFrame is a sequence of rows; the DataFrame index 0..n-1 is     *)
(*    the position 1..n.                                                   *)
(***************************************************************************)
EXTENDS Integers, Sequences, FiniteSets, TLC

VARIABLES
    parks_raw,            \* table parks_raw: sequence of rows, each with is_processed
    parks_master,         \* table parks_master: committed rows
    pc,                   \* position of the running operation
    df,                   \* DataFrame of loaded rows
    blocks,               \* result of block_by_zip_and_proximity: sequence of [id, members]
    block_indices,        \* argument of find_duplicate_groups
    all_duplicate_groups, \* sequence of groups (sequences of indices)
    master_records,       \* sequence of consolidated master records
    dup,                  \* results of are_duplicates(row1,row2) and (row2,row1)
    normalized_address,   \* results of parse_address: of an address, then of its full_normalized
    insert_count,
    error_count,
    session,              \* second storage session: transaction status and pending writes
    attempts,             \* number of INSERT executions per master record
    runs,                 \* number of invocations of process_parks_raw_to_master
    max_retries,          \* OwnerLookupOrchestrator.max_retries
    attempt,              \* loop variable of _lookup_owner_with_retry
    lookup_calls,         \* calls of fetcher.lookup_owner made so far
    result,               \* result of the last fetcher.lookup_owner that returned
    exception,            \* exception caught in the current iteration, if any
    wait_times,           \* arguments of the completed time.sleep calls
    returned,             \* return value of _lookup_owner_with_retry
    pipeline_state,       \* the dashboard's global pipeline_state (flags and current_task)
    state_lock,           \* holder of state_lock
    requests,             \* POST /api/pipeline/run requests: position, phase, response
    threads               \* worker threads started by api_run_pipeline

vars == <<parks_raw, parks_master, pc, df, blocks, block_indices,
          all_duplicate_groups, master_records, dup, normalized_address,
          insert_count, error_count, session, attempts, runs,
          max_retries, attempt, lookup_calls, result, exception, wait_times, returned,
          pipeline_state, state_lock, requests, threads>>

\* the variables of each program
dedupVars == <<parks_raw, parks_master, pc, df, blocks, block_indices,
               all_duplicate_groups, master_records, dup, normalized_address,
               insert_count, error_count, session, attempts, runs>>
dedupVarsButPc == <<parks_raw, parks_master, df, blocks, block_indices,
                    all_duplicate_groups, master_records, dup, normalized_address,
                    insert_count, error_count, session, attempts, runs>>
ownerVars == <<max_retries, attempt, lookup_calls, result, exception, wait_times, returned>>
dashboardVars == <<pipeline_state, state_lock, requests, threads>>

NULL == "<NULL>"
NONE == <<>>

\* no owner lookup is in progress
OwnersIdle ==
    /\ max_retries = 0 /\ attempt = 0 /\ lookup_calls = 0
    /\ result = NONE /\ exception = NONE /\ wait_times = <<>> /\ returned = NONE
\* the dashboard is not serving
DashboardIdle ==
    /\ pipeline_state = NONE /\ state_lock = NONE /\ requests = <<>> /\ threads = <<>>

Max(a, b) == IF a >= b THEN a ELSE b
Min(a, b) == IF a <= b THEN a ELSE b
Abs(a) == IF a >= 0 THEN a ELSE -a

RECURSIVE GCD(_, _)
GCD(a, b) == IF b = 0 THEN a ELSE GCD(b, a % b)
\* the rational num / den (den > 0) in lowest terms
Fraction(num, den) == LET g == GCD(num, den) IN [num |-> num \div g, den |-> den \div g]

\* forces a function to an explicit table, evaluated once
Tabulate(f) == f @@ <<>>

(***************************************************************************)
(* Python string primitives                                                *)
(***************************************************************************)
UpperChars == "ABCDEFGHIJKLMNOPQRSTUVWXYZ"
LowerChars == "abcdefghijklmnopqrstuvwxyz"
\* \w characters in code-point order
WordChars == "0123456789ABCDEFGHIJKLMNOPQRSTUVWXYZ_abcdefghijklmnopqrstuvwxyz"

CharAt(s, i) == SubSeq(s, i, i)
CharSet(s) == {CharAt(s, i) : i \in 1..Len(s)}
IndexIn(c, s) == CHOOSE i \in 1..Len(s) : CharAt(s, i) = c

IsWordChar(c) == c \in CharSet(WordChars)
IsSpace(c) == c = " "

lower_char(c) == IF c \in CharSet(UpperChars) THEN CharAt(LowerChars, IndexIn(c, UpperChars)) ELSE c

RECURSIVE lower_from(_, _, _)
lower_from(s, i, acc) ==
    IF i > Len(s) THEN acc ELSE lower_from(s, i + 1, acc \o lower_char(CharAt(s, i)))
\* str.lower()
lower(s) == lower_from(s, 1, "")

RECURSIVE split_from(_, _, _, _)
split_from(s, i, word, acc) ==
    IF i > Len(s) THEN (IF word = "" THEN acc ELSE Append(acc, word))
    ELSE IF IsSpace(CharAt(s, i))
         THEN split_from(s, i + 1, "", IF word = "" THEN acc ELSE Append(acc, word))
         ELSE split_from(s, i + 1, word \o CharAt(s, i), acc)
\* str.split(): the whitespace-separated words
split(s) == split_from(s, 1, "", <<>>)

RECURSIVE join_from(_, _, _, _)
join_from(words, sep, i, acc) ==
    IF i > Len(words) THEN acc
    ELSE join_from(words, sep, i + 1, IF i = 1 THEN words[i] ELSE acc \o sep \o words[i])
\* sep.join(words)
join(words, sep) == join_from(words, sep, 1, "")

RECURSIVE strip_left(_)
strip_left(s) == IF Len(s) > 0 /\ IsSpace(CharAt(s, 1)) THEN strip_left(SubSeq(s, 2, Len(s))) ELSE s
RECURSIVE strip_right(_)
strip_right(s) == IF Len(s) > 0 /\ IsSpace(CharAt(s, Len(s))) THEN strip_right(SubSeq(s, 1, Len(s) - 1)) ELSE s
\* str.strip()
strip(s) == strip_right(strip_left(s))

RECURSIVE keep_from(_, _, _, _)
keep_from(s, keep, i, acc) ==
    IF i > Len(s) THEN acc
    ELSE keep_from(s, keep, i + 1, IF CharAt(s, i) \in keep THEN acc \o CharAt(s, i) ELSE acc)
\* re.sub(r'[^...]', '', s): keeps the characters of the class
keep_chars(s, keep) == keep_from(s, keep, 1, "")

\* s1 < s2 in code-point order, for strings of \w characters
RECURSIVE str_less(_, _)
str_less(s1, s2) ==
    IF Len(s2) = 0 THEN FALSE
    ELSE IF Len(s1) = 0 THEN TRUE
    ELSE IF CharAt(s1, 1) = CharAt(s2, 1)
         THEN str_less(SubSeq(s1, 2, Len(s1)), SubSeq(s2, 2, Len(s2)))
         ELSE IndexIn(CharAt(s1, 1), WordChars) < IndexIn(CharAt(s2, 1), WordChars)

RECURSIVE insert_sorted(_, _)
insert_sorted(words, w) ==
    IF Len(words) = 0 THEN <<w>>
    ELSE IF str_less(w, Head(words)) THEN <<w>> \o words
    ELSE <<Head(words)>> \o insert_sorted(Tail(words), w)
RECURSIVE sorted_from(_, _, _)
sorted_from(words, i, acc) ==
    IF i > Len(words) THEN acc ELSE sorted_from(words, i + 1, insert_sorted(acc, words[i]))
\* sorted(words)
sorted(words) == sorted_from(words, 1, <<>>)

\* variant: the test is never true
contains_never(s, x) == FALSE

\* x in s for strings (substring test)
contains(s, x) == \E i \in 1..(Len(s) - Len(x) + 1) : SubSeq(s, i, i + Len(x) - 1) = x

(***************************************************************************)
(* rapidfuzz: fuzz.ratio and fuzz.token_sort_ratio                         *)
(***************************************************************************)
RECURSIVE lcs_row(_, _, _, _)
lcs_row(prev, c, t, row) ==
    IF Len(row) = Len(t) + 1 THEN row
    ELSE LET j == Len(row)
             cell == IF c = CharAt(t, j) THEN prev[j] + 1 ELSE Max(prev[j + 1], row[j])
         IN lcs_row(prev, c, t, Append(row, cell))
RECURSIVE lcs_rows(_, _, _, _)
lcs_rows(s, t, i, prev) ==
    IF i > Len(s) THEN prev[Len(t) + 1]
    ELSE LET r == lcs_row(prev, CharAt(s, i), t, <<0>>)
         IN IF Len(r) > 0 THEN lcs_rows(s, t, i + 1, r) ELSE 0
\* length of a longest common subsequence
lcs_length(s, t) == lcs_rows(s, t, 1, [j \in 1..(Len(t) + 1) |-> 0])

\* fuzz.ratio: 100 * (1 - indel_distance / (len1 + len2)) = 200 * lcs / (len1 + len2)
ratio(s1, s2) ==
    IF Len(s1) + Len(s2) = 0 THEN Fraction(100, 1)
    ELSE Fraction(200 * lcs_length(s1, s2), Len(s1) + Len(s2))

\* fuzz.token_sort_ratio: ratio of the strings with their words sorted
token_sort_ratio(s1, s2) == ratio(join(sorted(split(s1)), " "), join(sorted(split(s2)), " "))

\* comparisons of a score [num, den] with a number k
ScoreLt(r, k) == r.num < k * r.den
ScoreGt_or_equal(r, k) == r.num >= k * r.den
ScoreGt(r, k) == r.num > k * r.den
ScoreGe(r, k) == r.num >= k * r.den
ScoreEq(r, k) == r.num = k * r.den

(***************************************************************************)
(* Rows of parks_raw (the columns read by the SELECT of the driver)        *)
(***************************************************************************)
\* a row with every nullable column NULL
EmptyRow ==
    [id |-> 0, external_id |-> NULL, source |-> NULL, name |-> NULL, park_type |-> NULL,
     address |-> NULL, city |-> NULL, state |-> NULL, zip_code |-> NULL, county |-> NULL,
     latitude |-> NONE, longitude |-> NONE, phone |-> NULL, website |-> NULL,
     email |-> NULL, business_status |-> NULL, rating |-> NONE, total_reviews |-> NONE,
     address_normalized |-> NULL]

\* pd.isna / pd.notna on a text value and on a number
isna(v) == v = NULL
notna(v) == v # NULL
num_isna(v) == v = NONE
num_notna(v) == v # NONE
\* Python truthiness of a text value: neither None nor ''
truthy(v) == v # NULL /\ v # ""

(***************************************************************************)
(* GeographicBlocker.calculate_distance_meters                             *)
(***************************************************************************)
DistanceThreshold == 500
NameThreshold == 85
AddressThreshold == 80
NearExactNameThreshold == 95
ProximityMeters == 500

\* metres of arc of one latitude step: two steps are the distance threshold
LatStepMeters == DistanceThreshold \div 2

\* variant: the signed difference of the latitudes
calculate_distance_meters_signed(lat1, lon1, lat2, lon2) == LatStepMeters * (lat2 - lat1)

\* haversine distance; on one meridian (lon1 = lon2) a = sin^2(dlat/2) and
\* c = |dlat|, so the distance is R * |dlat|
calculate_distance_meters(lat1, lon1, lat2, lon2) == LatStepMeters * Abs(lat2 - lat1)

(***************************************************************************)
(* DuplicateDetector                                                       *)
(***************************************************************************)
stopwords == {"rv", "park", "mobile", "home", "trailer", "campground",
              "resort", "the", "a", "an", "and", "&"}

RECURSIVE without_stopwords(_, _, _)
without_stopwords(words, i, acc) ==
    IF i > Len(words) THEN acc
    ELSE without_stopwords(words, i + 1,
                           IF words[i] \in stopwords THEN acc ELSE Append(acc, words[i]))

\* variant: the stopwords are kept
normalize_name_keep_stopwords(name) ==
    IF name = NULL \/ name = "" THEN ""
    ELSE strip(keep_chars(join(split(lower(name)), " "), CharSet(WordChars) \cup {" "}))

normalize_name(name) ==
    IF name = NULL \/ name = "" THEN ""
    ELSE LET words == without_stopwords(split(lower(name)), 1, <<>>)
         IN strip(keep_chars(join(words, " "), CharSet(WordChars) \cup {" "}))

\* the names of the modelled listings
NameTexts == {NULL, "", "The RV Park", "The Mobile Home Park", "Sunny Acres RV Park",
              "Sunny Acres RV Resort", "Pine Lake Village", "Pine Lake Village North"}

\* normalize_name over NameTexts, as a table
NormalizedNames == Tabulate([name \in NameTexts |-> normalize_name(name)])
NormalizedNameSet == {NormalizedNames[name] : name \in NameTexts}
\* fuzz.token_sort_ratio over the normalized names, as a table
NameSimilarity ==
    Tabulate([p \in NormalizedNameSet \X NormalizedNameSet |-> token_sort_ratio(p[1], p[2])])

NotDuplicate == [is_dup |-> FALSE, confidence |-> Fraction(0, 1)]

\* variant: name_similarity <= name_threshold
name_not_above_threshold(name_similarity, name_threshold) ==
    ~ScoreGt(name_similarity, name_threshold)

\* if name_similarity < name_threshold: return False, 0.0
name_below_threshold(name_similarity, name_threshold) == ScoreLt(name_similarity, name_threshold)

\* variant: the threshold is taken as a radius on each side
too_far_twice_threshold(distance, distance_threshold) == distance > 2 * distance_threshold

\* variant: distance >= distance_threshold
too_far_inclusive(distance, distance_threshold) == distance >= distance_threshold

\* if distance > distance_threshold: return False, 0.0
too_far(distance, distance_threshold) == distance > distance_threshold

has_coords(row) == num_notna(row.latitude) /\ num_notna(row.longitude)

are_duplicates(row1, row2, name_threshold, distance_threshold) ==
    LET name1 == NormalizedNames[row1.name]
        name2 == NormalizedNames[row2.name]
        name_similarity == NameSimilarity[<<name1, name2>>]
        distance == calculate_distance_meters(row1.latitude[1], row1.longitude[1],
                                              row2.latitude[1], row2.longitude[1])
        addr1_norm == row1.address_normalized
        addr2_norm == row2.address_normalized
        addr_similarity == ratio(addr1_norm, addr2_norm)
    IN  IF name1 = "" \/ name2 = "" THEN NotDuplicate
        ELSE IF name_below_threshold(name_similarity, name_threshold) THEN NotDuplicate
        ELSE IF has_coords(row1) /\ has_coords(row2)
             THEN IF too_far(distance, distance_threshold) THEN NotDuplicate
                  ELSE \* (name_similarity * 0.7 + distance_score * 0.3) / 100 with
                       \* distance_score = max(0, 100 - distance / threshold * 100)
                       [is_dup |-> TRUE,
                        confidence |->
                          Fraction(7 * name_similarity.num * distance_threshold
                                   + 300 * Max(0, distance_threshold - distance) * name_similarity.den,
                                   1000 * name_similarity.den * distance_threshold)]
        ELSE IF truthy(addr1_norm) /\ truthy(addr2_norm) /\ ScoreGt(addr_similarity, AddressThreshold)
             THEN \* (name_similarity * 0.6 + addr_similarity * 0.4) / 100
                  [is_dup |-> TRUE,
                   confidence |->
                     Fraction(6 * name_similarity.num * addr_similarity.den
                              + 4 * addr_similarity.num * name_similarity.den,
                              1000 * name_similarity.den * addr_similarity.den)]
        ELSE IF ScoreGe(name_similarity, NearExactNameThreshold)
             THEN [is_dup |-> TRUE,
                   confidence |-> Fraction(name_similarity.num, 100 * name_similarity.den)]
        ELSE NotDuplicate

\* variant: the inner loop breaks after the first duplicate it finds
RECURSIVE absorb_first_only(_, _, _, _, _)
absorb_first_only(frame, seed, block, k, st) ==
    IF k > Len(block) THEN st
    ELSE LET other_idx == block[k]
         IN IF other_idx \in st.processed THEN absorb_first_only(frame, seed, block, k + 1, st)
            ELSE IF are_duplicates(frame[seed], frame[other_idx],
                                   NameThreshold, DistanceThreshold).is_dup
                 THEN [group |-> Append(st.group, other_idx),
                       processed |-> st.processed \cup {other_idx}]
                 ELSE absorb_first_only(frame, seed, block, k + 1, st)

\* variant: a candidate is compared with the last record added to the group
RECURSIVE absorb_chained(_, _, _, _, _)
absorb_chained(frame, seed, block, k, st) ==
    IF k > Len(block) THEN st
    ELSE LET other_idx == block[k]
         IN IF other_idx \in st.processed THEN absorb_chained(frame, seed, block, k + 1, st)
            ELSE IF are_duplicates(frame[st.group[Len(st.group)]], frame[other_idx],
                                   NameThreshold, DistanceThreshold).is_dup
                 THEN absorb_chained(frame, seed, block, k + 1,
                                     [group |-> Append(st.group, other_idx),
                                      processed |-> st.processed \cup {other_idx}])
                 ELSE absorb_chained(frame, seed, block, k + 1, st)

\* the inner loop of find_duplicate_groups: compares the seed with every
\* index of the block that is not processed yet, in block order
RECURSIVE absorb(_, _, _, _, _)
absorb(frame, seed, block, k, st) ==
    IF k > Len(block) THEN st
    ELSE LET other_idx == block[k]
         IN IF other_idx \in st.processed THEN absorb(frame, seed, block, k + 1, st)
            ELSE IF are_duplicates(frame[seed], frame[other_idx],
                                   NameThreshold, DistanceThreshold).is_dup
                 THEN absorb(frame, seed, block, k + 1,
                             [group |-> Append(st.group, other_idx),
                              processed |-> st.processed \cup {other_idx}])
                 ELSE absorb(frame, seed, block, k + 1, st)

\* the outer loop of find_duplicate_groups
RECURSIVE groups_from(_, _, _, _, _)
groups_from(frame, block, i, processed, groups) ==
    IF i > Len(block) THEN groups
    ELSE LET idx == block[i]
         IN IF idx \in processed THEN groups_from(frame, block, i + 1, processed, groups)
            ELSE LET st == absorb(frame, idx, block, 1,
                                  [group |-> <<idx>>, processed |-> processed \cup {idx}])
                 IN groups_from(frame, block, i + 1, st.processed, Append(groups, st.group))

\* variant: an absorbed index is not added to processed, so it is a seed later
find_duplicate_groups_unmarked(frame, block) ==
    [k \in 1..Len(block) |->
        <<block[k]>> \o SelectSeq(SubSeq(block, k + 1, Len(block)),
                                  LAMBDA other_idx :
                                      are_duplicates(frame[block[k]], frame[other_idx],
                                                     NameThreshold, DistanceThreshold).is_dup)]

find_duplicate_groups(frame, block) ==
    IF Len(block) <= 1 THEN [k \in 1..Len(block) |-> <<block[k]>>]
    ELSE groups_from(frame, block, 1, {}, <<>>)

(***************************************************************************)
(* GeographicBlocker.block_by_zip_and_proximity                            *)
(***************************************************************************)
\* df.index: the indices of the frame, in order
frame_index(frame) == [i \in 1..Len(frame) |-> i]

\* blocks[key].extend(members) on a defaultdict(list) kept in insertion order
dict_extend(d, key, members) ==
    IF \E k \in 1..Len(d) : d[k].id = key
    THEN [k \in 1..Len(d) |-> IF d[k].id = key
                              THEN [id |-> key, members |-> d[k].members \o members]
                              ELSE d[k]]
    ELSE Append(d, [id |-> key, members |-> members])

\* the keys of df.groupby('zip_code'), in sorted order, that are not null or empty
RECURSIVE zip_keys(_, _, _)
zip_keys(frame, i, acc) ==
    IF i > Len(frame) THEN acc
    ELSE LET z == frame[i].zip_code
         IN zip_keys(frame, i + 1,
                     IF notna(z) /\ z # "" /\ ~(\E k \in 1..Len(acc) : acc[k] = z)
                     THEN insert_sorted(acc, z) ELSE acc)

RECURSIVE zip_blocks(_, _, _, _)
zip_blocks(frame, keys, k, d) ==
    IF k > Len(keys) THEN d
    ELSE LET members == SelectSeq(frame_index(frame), LAMBDA i : frame[i].zip_code = keys[k])
         IN zip_blocks(frame, keys, k + 1, dict_extend(d, "zip_" \o keys[k], members))

\* variant: the rows with an empty postal code are not selected
no_zip_row_isna_only(row) == isna(row.zip_code)

\* df[df['zip_code'].isna() | (df['zip_code'] == '')]
no_zip_row(row) == isna(row.zip_code) \/ row.zip_code = ""

\* variant: only the seed is skipped, a record absorbed before is compared again
RECURSIVE neighbours_reevaluated(_, _, _, _, _, _)
neighbours_reevaluated(frame, idx, no_zip, proximity_meters, k, st) ==
    IF k > Len(no_zip) THEN st
    ELSE LET other_idx == no_zip[k]
             other_row == frame[other_idx]
             row == frame[idx]
         IN IF other_idx = idx
            THEN neighbours_reevaluated(frame, idx, no_zip, proximity_meters, k + 1, st)
            ELSE IF num_isna(other_row.latitude) \/ num_isna(other_row.longitude)
            THEN neighbours_reevaluated(frame, idx, no_zip, proximity_meters, k + 1, st)
            ELSE IF calculate_distance_meters(row.latitude[1], row.longitude[1],
                                              other_row.latitude[1], other_row.longitude[1])
                    <= proximity_meters
            THEN neighbours_reevaluated(frame, idx, no_zip, proximity_meters, k + 1,
                                        [block_members |-> Append(st.block_members, other_idx),
                                         processed |-> st.processed \cup {other_idx}])
            ELSE neighbours_reevaluated(frame, idx, no_zip, proximity_meters, k + 1, st)

\* the inner loop over no_zip.index: neighbours of the seed within proximity_meters
RECURSIVE neighbours(_, _, _, _, _, _)
neighbours(frame, idx, no_zip, proximity_meters, k, st) ==
    IF k > Len(no_zip) THEN st
    ELSE LET other_idx == no_zip[k]
             other_row == frame[other_idx]
             row == frame[idx]
         IN IF other_idx \in st.processed
            THEN neighbours(frame, idx, no_zip, proximity_meters, k + 1, st)
            ELSE IF num_isna(other_row.latitude) \/ num_isna(other_row.longitude)
            THEN neighbours(frame, idx, no_zip, proximity_meters, k + 1, st)
            ELSE IF calculate_distance_meters(row.latitude[1], row.longitude[1],
                                              other_row.latitude[1], other_row.longitude[1])
                    <= proximity_meters
            THEN neighbours(frame, idx, no_zip, proximity_meters, k + 1,
                            [block_members |-> Append(st.block_members, other_idx),
                             processed |-> st.processed \cup {other_idx}])
            ELSE neighbours(frame, idx, no_zip, proximity_meters, k + 1, st)

\* variant: the rows without coordinates share one block "no_geo"
RECURSIVE proximity_blocks_shared_no_geo(_, _, _, _, _, _)
proximity_blocks_shared_no_geo(frame, no_zip, proximity_meters, i, processed, d) ==
    IF i > Len(no_zip) THEN d
    ELSE LET idx == no_zip[i]
             row == frame[idx]
         IN IF idx \in processed
            THEN proximity_blocks_shared_no_geo(frame, no_zip, proximity_meters, i + 1, processed, d)
            ELSE IF num_isna(row.latitude) \/ num_isna(row.longitude)
            THEN proximity_blocks_shared_no_geo(frame, no_zip, proximity_meters, i + 1,
                                                processed \cup {idx},
                                                dict_extend(d, "no_geo", <<idx>>))
            ELSE LET st == neighbours(frame, idx, no_zip, proximity_meters, 1,
                                      [block_members |-> <<idx>>,
                                       processed |-> processed \cup {idx}])
                 IN proximity_blocks_shared_no_geo(frame, no_zip, proximity_meters, i + 1,
                                                   st.processed,
                                                   dict_extend(d, "geo_cluster_" \o ToString(idx),
                                                               st.block_members))

\* the outer loop over no_zip.index
RECURSIVE proximity_blocks(_, _, _, _, _, _)
proximity_blocks(frame, no_zip, proximity_meters, i, processed, d) ==
    IF i > Len(no_zip) THEN d
    ELSE LET idx == no_zip[i]
             row == frame[idx]
         IN IF idx \in processed
            THEN proximity_blocks(frame, no_zip, proximity_meters, i + 1, processed, d)
            ELSE IF num_isna(row.latitude) \/ num_isna(row.longitude)
            THEN proximity_blocks(frame, no_zip, proximity_meters, i + 1, processed \cup {idx},
                                  dict_extend(d, "no_geo_" \o ToString(idx), <<idx>>))
            ELSE LET st == neighbours(frame, idx, no_zip, proximity_meters, 1,
                                      [block_members |-> <<idx>>,
                                       processed |-> processed \cup {idx}])
                 IN proximity_blocks(frame, no_zip, proximity_meters, i + 1, st.processed,
                                     dict_extend(d, "geo_cluster_" \o ToString(idx),
                                                 st.block_members))

block_by_zip_and_proximity(frame, proximity_meters) ==
    LET by_zip == zip_blocks(frame, zip_keys(frame, 1, <<>>), 1, <<>>)
        no_zip == SelectSeq(frame_index(frame), LAMBDA i : no_zip_row(frame[i]))
    IN proximity_blocks(frame, no_zip, proximity_meters, 1, {}, by_zip)


(***************************************************************************)
(* AddressNormalizer                                                       *)
(***************************************************************************)
STREET_TYPE_MAP ==
    [street |-> "st", str |-> "st", strt |-> "st",
     avenue |-> "ave", av |-> "ave", avn |-> "ave",
     boulevard |-> "blvd", blv |-> "blvd", boul |-> "blvd",
     road |-> "rd", roa |-> "rd",
     drive |-> "dr", drv |-> "dr", driv |-> "dr",
     lane |-> "ln", lan |-> "ln",
     court |-> "ct", crt |-> "ct",
     circle |-> "cir", circ |-> "cir",
     place |-> "pl", plc |-> "pl",
     highway |-> "hwy", hwy |-> "hwy", hiway |-> "hwy",
     parkway |-> "pkwy", pkw |-> "pkwy", pky |-> "pkwy",
     trail |-> "trl", trls |-> "trl"]

RECURSIVE strip_dots_left(_)
strip_dots_left(s) == IF Len(s) > 0 /\ CharAt(s, 1) = "." THEN strip_dots_left(SubSeq(s, 2, Len(s))) ELSE s
RECURSIVE strip_dots_right(_)
strip_dots_right(s) ==
    IF Len(s) > 0 /\ CharAt(s, Len(s)) = "." THEN strip_dots_right(SubSeq(s, 1, Len(s) - 1)) ELSE s

normalize_street_type(street_type) ==
    IF street_type = "" THEN ""
    ELSE LET street_type_lower == strip_dots_right(strip_dots_left(lower(street_type)))
         IN IF street_type_lower \in DOMAIN STREET_TYPE_MAP
            THEN STREET_TYPE_MAP[street_type_lower] ELSE street_type_lower

\* re.sub(r'\s+', ' ', s) and re.sub(r',+', ',', s): a run of c becomes one c
RECURSIVE collapse_from(_, _, _, _)
collapse_from(s, c, i, acc) ==
    IF i > Len(s) THEN acc
    ELSE collapse_from(s, c, i + 1,
                       IF CharAt(s, i) = c /\ Len(acc) > 0 /\ CharAt(acc, Len(acc)) = c
                       THEN acc ELSE acc \o CharAt(s, i))
collapse_runs(s, c) == collapse_from(s, c, 1, "")

clean_address_string(address) ==
    IF address = NULL \/ address = "" THEN ""
    ELSE LET kept == keep_chars(address, CharSet(WordChars) \cup {" ", ",", ".", "-"})
         IN strip(collapse_runs(collapse_runs(kept, " "), ","))

\* re.sub(r'\bword\b', repl, s): replaces the maximal runs of \w characters equal to word
RECURSIVE replace_word_from(_, _, _, _, _, _)
replace_word_from(s, word, repl, i, run, acc) ==
    LET flushed == acc \o (IF run = word THEN repl ELSE run)
    IN IF i > Len(s) THEN flushed
       ELSE IF IsWordChar(CharAt(s, i))
            THEN replace_word_from(s, word, repl, i + 1, run \o CharAt(s, i), acc)
            ELSE replace_word_from(s, word, repl, i + 1, "", flushed \o CharAt(s, i))
replace_word(s, word, repl) == replace_word_from(s, word, repl, 1, "", "")

\* NormalizedAddress()
EmptyNormalizedAddress ==
    [street_number |-> NULL, street_name |-> NULL, street_type |-> NULL, city |-> NULL,
     state |-> NULL, zip_code |-> NULL, full_normalized |-> NULL, parse_success |-> FALSE]

\* the modelled addresses: number, street name and street type, alone or two
\* of them joined by "&", and the texts without an address
StreetTypeTexts ==
    {"Street", "St.", "Avenue", "Boulevard", "Road", "Drive", "Lane", "Court", "Circle",
     "Place", "Highway", "Parkway", "Trail"}
StreetAddresses == {n \o " " \o t : n \in {"123 Oak", "456 Elm"}, t \in StreetTypeTexts}
AddressTexts ==
    {NULL, "", "#", " 123  Oak Street "}
    \cup StreetAddresses
    \cup {"123 Oak " \o t \o " & 456 Elm " \o t : t \in StreetTypeTexts}

\* no label: the key is not in the tagged dict
NoTags ==
    [AddressNumber |-> NULL, StreetNamePreDirectional |-> NULL, StreetName |-> NULL,
     StreetNamePostType |-> NULL, PlaceName |-> NULL, StateName |-> NULL, ZipCode |-> NULL]

IsDigits(s) == Len(s) > 0 /\ \A i \in 1..Len(s) : CharAt(s, i) \in CharSet("0123456789")
StreetTypeWords == DOMAIN STREET_TYPE_MAP \cup {STREET_TYPE_MAP[k] : k \in DOMAIN STREET_TYPE_MAP}

\* the label usaddress gives a token of the modelled addresses
token_label(token) ==
    IF IsDigits(token) THEN "AddressNumber"
    ELSE IF strip_dots_right(lower(token)) \in StreetTypeWords THEN "StreetNamePostType"
    ELSE "StreetName"

\* usaddress.tag(cleaned) on the cleaned modelled addresses: the tokens of a
\* label joined by a space, or raised |-> TRUE for RepeatedLabelError (a label
\* given to two separated runs of tokens)
usaddress_tag(cleaned) ==
    LET tokens == split(cleaned)
        labels == [k \in 1..Len(tokens) |-> token_label(tokens[k])]
        repeated == \E i, j, k \in 1..Len(tokens) :
                        i < j /\ j < k /\ labels[i] = labels[k] /\ labels[j] # labels[i]
        labelled(l) == LET at == SelectSeq(frame_index(tokens), LAMBDA k : labels[k] = l)
                       IN IF Len(at) = 0 THEN NULL
                          ELSE join([k \in 1..Len(at) |-> tokens[at[k]]], " ")
    IN IF repeated THEN [raised |-> TRUE, parsed |-> NoTags]
       ELSE [raised |-> FALSE,
             parsed |-> [NoTags EXCEPT !.AddressNumber = labelled("AddressNumber"),
                                       !.StreetName = labelled("StreetName"),
                                       !.StreetNamePostType = labelled("StreetNamePostType")]]

\* parsed.get(key, '')
tag_get(parsed, key) == IF parsed[key] = NULL THEN "" ELSE parsed[key]
\* value or None
or_none(v) == IF v = "" THEN NULL ELSE v

\* variant: except Exception returns NormalizedAddress(), with no fallback
parse_failed_empty(cleaned) == EmptyNormalizedAddress

\* the except clause of parse_address: the basic normalization of the cleaned text
parse_failed(cleaned) ==
    LET basic_normalized ==
            replace_word(replace_word(replace_word(replace_word(lower(cleaned),
                "street", "st"), "avenue", "ave"), "boulevard", "blvd"), "road", "rd")
    IN [EmptyNormalizedAddress EXCEPT !.full_normalized = basic_normalized]

parse_address(address_str) ==
    IF address_str = NULL \/ address_str = "" THEN EmptyNormalizedAddress
    ELSE LET cleaned == clean_address_string(address_str)
             tagged == usaddress_tag(cleaned)
             parsed == tagged.parsed
             street_number == tag_get(parsed, "AddressNumber")
             keys == <<"StreetNamePreDirectional", "StreetName", "StreetNamePostType">>
             street_parts == SelectSeq([k \in 1..3 |-> parsed[keys[k]]], LAMBDA v : v # NULL)
             street_name == join(street_parts, " ")
             post_type == tag_get(parsed, "StreetNamePostType")
             street_type == IF post_type # "" THEN normalize_street_type(post_type) ELSE ""
             normalized_parts ==
                 (IF street_number # "" THEN <<street_number>> ELSE <<>>)
                 \o (IF street_name # "" THEN <<lower(street_name)>> ELSE <<>>)
                 \o (IF street_type # "" /\ ~contains(lower(street_name), street_type)
                     THEN <<street_type>> ELSE <<>>)
             full_normalized == join(normalized_parts, " ")
         IN IF cleaned = "" THEN EmptyNormalizedAddress
            ELSE IF ~tagged.raised
            THEN [street_number |-> or_none(street_number),
                  street_name |-> or_none(street_name),
                  street_type |-> or_none(street_type),
                  city |-> or_none(tag_get(parsed, "PlaceName")),
                  state |-> or_none(tag_get(parsed, "StateName")),
                  zip_code |-> or_none(tag_get(parsed, "ZipCode")),
                  full_normalized |-> or_none(full_normalized),
                  parse_success |-> TRUE]
            ELSE parse_failed(cleaned)

\* variant: the column holds full_normalized, with no fall back to the raw address
normalize_address_row_no_fallback(row) == parse_address(row.address).full_normalized

\* normalize_address_row of the driver: the value of the column address_normalized
normalize_address_row(row) ==
    LET normalized == parse_address(row.address)
    IN IF truthy(normalized.full_normalized) THEN normalized.full_normalized ELSE row.address

\* parse_address over AddressTexts, as a table
ParsedAddresses == Tabulate([a \in AddressTexts |-> parse_address(a)])

\* normalize_address_row over AddressTexts, as a table
NormalizedAddresses ==
    Tabulate([a \in AddressTexts |-> normalize_address_row([EmptyRow EXCEPT !.address = a])])

(***************************************************************************)
(* MasterRecordBuilder                                                     *)
(***************************************************************************)
SOURCE_PRIORITY(source) ==
    CASE source = "google_places" -> 3
      [] source = "osm" -> 2
      [] source = "yelp" -> 1
      [] source = "manual" -> 0
      [] OTHER -> 0

\* first value that is neither null nor empty, else None
RECURSIVE select_best_value(_)
select_best_value(values) ==
    IF Len(values) = 0 THEN NULL
    ELSE IF notna(Head(values)) /\ Head(values) # "" THEN Head(values)
    ELSE select_best_value(Tail(values))

\* variant: ascending=True, the lowest priority first
sort_by_priority_ascending(frame, group_indices) ==
    LET WithPriority(p) == SelectSeq(group_indices, LAMBDA i : SOURCE_PRIORITY(frame[i].source) = p)
    IN WithPriority(0) \o WithPriority(1) \o WithPriority(2) \o WithPriority(3)

\* group_df.sort_values('_source_priority', ascending=False): the indices of the
\* group by descending priority, members of one priority in group order
sort_by_priority(frame, group_indices) ==
    LET WithPriority(p) == SelectSeq(group_indices, LAMBDA i : SOURCE_PRIORITY(frame[i].source) = p)
    IN WithPriority(3) \o WithPriority(2) \o WithPriority(1) \o WithPriority(0)

RECURSIVE unique_from(_, _, _)
unique_from(values, i, acc) ==
    IF i > Len(values) THEN acc
    ELSE unique_from(values, i + 1,
                     IF \E k \in 1..Len(acc) : acc[k] = values[i] THEN acc ELSE Append(acc, values[i]))

\* variant: the values are not deduplicated
unique_keep_all(values) == values

\* Series.unique(): the distinct values in order of first appearance
unique(values) == unique_from(values, 1, <<>>)

RECURSIVE sum_from(_, _, _)
sum_from(values, i, acc) ==
    IF i > Len(values) THEN acc
    ELSE sum_from(values, i + 1, IF num_notna(values[i]) THEN acc + values[i][1] ELSE acc)
\* Series.sum(): the sum of the non-null values
sum(values) == sum_from(values, 1, 0)

\* variant: the coordinates weigh 0.2 and not 0.4
confidence_score_light_coords(num_sources, coords_credit, contact_credit) ==
    [num |-> Min(30, 4 * num_sources + 6 * coords_credit + 3 * contact_credit), den |-> 30]

\* variant: the number of sources counts up to three
confidence_score_three_sources(num_sources, coords_credit, contact_credit) ==
    [num |-> Min(30, 4 * Min(3, num_sources) + 12 * coords_credit + 3 * contact_credit), den |-> 30]

\* variant: the sum without min(1.0, ...)
confidence_score_uncapped(num_sources, coords_credit, contact_credit) ==
    [num |-> 4 * num_sources + 12 * coords_credit + 3 * contact_credit, den |-> 30]

\* min(1.0, (num_sources / 3) * 0.4 + has_coords * 0.4 + has_contact * 0.2), with
\* has_coords 1.0 or 0.0 and has_contact 0.5 or 0.0: in thirtieths
confidence_score_of(num_sources, coords_credit, contact_credit) ==
    [num |-> Min(30, 4 * num_sources + 12 * coords_credit + 3 * contact_credit), den |-> 30]

\* Python truthiness of master['latitude']: a float that is neither None nor 0.0
lat_truthy(latitude) == latitude # NONE /\ latitude[1].num # 0

consolidate_duplicate_group(frame, group_indices, master_id) ==
    LET order == sort_by_priority(frame, group_indices)
        group_df == [k \in 1..Len(order) |-> frame[order[k]]]
        column(c) == [k \in 1..Len(group_df) |-> group_df[k][c]]
        google_rows == SelectSeq(group_df, LAMBDA r : r.source = "google_places")
        google_column(c) == [k \in 1..Len(google_rows) |-> google_rows[k][c]]
        valid_coords == SelectSeq(group_df, LAMBDA r : num_notna(r.latitude) /\ num_notna(r.longitude))
        valid_ratings == SelectSeq(group_df, LAMBDA r : num_notna(r.rating))
        \* float(valid_coords['latitude'].mean())
        mean(rows, c) == <<[num |-> sum([k \in 1..Len(rows) |-> rows[k][c]]), den |-> Len(rows)]>>
        latitude == IF Len(valid_coords) > 0 THEN mean(valid_coords, "latitude") ELSE NONE
        longitude == IF Len(valid_coords) > 0 THEN mean(valid_coords, "longitude") ELSE NONE
        \* min(1.0, len(valid_coords) / len(group_df))
        location_confidence ==
            IF Len(valid_coords) > 0
            THEN [num |-> Min(Len(group_df), Len(valid_coords)), den |-> Len(group_df)]
            ELSE [num |-> 0, den |-> 1]
        phone == select_best_value(google_column("phone") \o column("phone"))
        website == select_best_value(google_column("website") \o column("website"))
        address == select_best_value(column("address"))
        status == select_best_value(column("business_status"))
        num_sources == Cardinality({group_df[k].source : k \in 1..Len(group_df)})
        has_coords_credit == IF lat_truthy(latitude) THEN 1 ELSE 0
        has_contact == IF truthy(phone) \/ truthy(website) THEN 1 ELSE 0
        confidence_score == confidence_score_of(num_sources, has_coords_credit, has_contact)
        total_reviews == IF Len(valid_ratings) > 0 THEN sum(column("total_reviews")) ELSE 0
    IN [master_id |-> master_id,
        name |-> select_best_value(column("name")),
        park_type |-> select_best_value(column("park_type")),
        alternative_names |-> SelectSeq(unique(column("name")), LAMBDA n : notna(n) /\ n # ""),
        address |-> address,
        city |-> select_best_value(column("city")),
        state |-> select_best_value(column("state")),
        zip_code |-> select_best_value(column("zip_code")),
        county |-> select_best_value(column("county")),
        latitude |-> latitude,
        longitude |-> longitude,
        location_confidence |-> location_confidence,
        phone |-> phone,
        website |-> website,
        email |-> select_best_value(column("email")),
        business_status |-> IF truthy(status) THEN status ELSE "OPERATIONAL",
        avg_rating |-> IF Len(valid_ratings) > 0 THEN mean(valid_ratings, "rating") ELSE NONE,
        total_reviews |-> total_reviews,
        source_ids |-> LET with_id == SelectSeq(group_df, LAMBDA r : notna(r.external_id))
                       IN [k \in 1..Len(with_id) |->
                             [source |-> with_id[k].source, external_id |-> with_id[k].external_id]],
        confidence_score |-> confidence_score,
        data_quality_flags |->
            [num_sources |-> num_sources,
             has_coordinates |-> lat_truthy(latitude),
             has_contact_info |-> truthy(phone) \/ truthy(website),
             has_reviews |-> total_reviews > 0],
        needs_manual_review |->
            \/ ~lat_truthy(latitude)
            \/ ~truthy(address)
            \/ confidence_score.num * 2 < confidence_score.den]


(***************************************************************************)
(* Bounds and the modelled listings                                        *)
(***************************************************************************)
MaxRecords == 3   \* rows of parks_raw
MaxBlock == 3     \* rows of the frame given to find_duplicate_groups
MaxGroup == 4     \* members of the group given to consolidate_duplicate_group
MaxLat == 3       \* latitudes 0..MaxLat, in steps of LatStepMeters
MaxRuns == 2      \* invocations of the driver

SeqsUpTo(S, lo, hi) == UNION {[1..n -> S] : n \in lo..hi}

Listing(source, name, zip_code, latitude, longitude, address, phone) ==
    [EmptyRow EXCEPT !.source = source, !.name = name, !.zip_code = zip_code,
                     !.latitude = latitude, !.longitude = longitude,
                     !.address = address, !.phone = phone]

Longitude == <<-86>>

\* rows of the driver's runs
PipelineRows ==
    {Listing("google_places", "Sunny Acres RV Park", "46201", <<0>>, Longitude, "123 Oak Street", "317-555-0100"),
     Listing("osm", "Sunny Acres RV Resort", "46201", <<1>>, Longitude, NULL, NULL),
     Listing("yelp", "Sunny Acres RV Park", "46202", <<0>>, Longitude, "123 Oak St.", NULL),
     Listing("osm", "Sunny Acres RV Resort", NULL, <<2>>, Longitude, NULL, NULL),
     Listing("manual", "Sunny Acres RV Park", "", <<0>>, NONE, "#", NULL),
     Listing("yelp", "Pine Lake Village", NULL, NONE, NONE, "123 Oak Street", NULL),
     Listing("osm", "The RV Park", "46201", <<0>>, Longitude, "456 Elm Road", NULL),
     Listing("google_places", "Pine Lake Village North", NULL, <<3>>, Longitude,
             "123 Oak Street & 456 Elm Street", "317-555-0101")}

\* rows given to block_by_zip_and_proximity
Coordinates ==
    {<<NONE, NONE>>, <<NONE, Longitude>>} \cup {<<(<<lat>>), Longitude>> : lat \in 0..MaxLat}
BlockRows ==
    {Listing("osm", "Sunny Acres RV Park", z, c[1], c[2], NULL, NULL) :
        z \in {NULL, "", "46201", "46202"}, c \in Coordinates}

\* rows given to are_duplicates
DupRows ==
    {Listing("osm", n, NULL, c[1], c[2], a, NULL) :
        n \in NameTexts, c \in Coordinates \cup {<<(<<0>>), NONE>>},
        a \in {NULL, "123 Oak Street", "123 Oak St."}}

\* rows given to find_duplicate_groups
GroupRows ==
    {Listing("osm", "Sunny Acres RV Park", "46201", c[1], c[2], NULL, NULL) :
        c \in {<<NONE, NONE>>, <<(<<0>>), Longitude>>, <<(<<2>>), Longitude>>,
               <<(<<MaxLat>>), Longitude>>}}
    \cup {Listing("osm", n, "46201", <<0>>, Longitude, "123 Oak Street", NULL) :
            n \in {NULL, "", "The Mobile Home Park"}}
    \cup {Listing("osm", "Pine Lake Village", "46201", <<0>>, Longitude, NULL, NULL),
          Listing("osm", "The RV Park", "46201", <<0>>, Longitude, NULL, NULL)}

\* rows given to consolidate_duplicate_group
MasterRows ==
    {[Listing("google_places", "Sunny Acres RV Park", "46201", <<1>>, Longitude, "123 Oak Street", "317-555-0100")
        EXCEPT !.rating = <<4>>, !.total_reviews = <<10>>, !.city = "Indianapolis", !.state = "IN"],
     [Listing("google_places", NULL, NULL, <<1>>, NONE, NULL, NULL)
        EXCEPT !.total_reviews = <<12>>, !.website = "https://sunnyacres.example"],
     [Listing("osm", "Sunny Acres RV Resort", "46201", <<0>>, Longitude, "123 Oak St.", NULL)
        EXCEPT !.park_type = "caravan_site", !.email = "office@sunnyacres.example", !.city = ""],
     [Listing("osm", "Sunny Acres RV Resort", NULL, <<2>>, Longitude, NULL, NULL)
        EXCEPT !.rating = <<5>>, !.website = "https://osm.example/sunny"],
     [Listing("yelp", "Sunny Acres RV Park", "46201", <<0>>, Longitude, NULL, "317-555-0102")
        EXCEPT !.total_reviews = <<7>>, !.county = "Marion", !.website = ""],
     [Listing("yelp", "Sunny Acres RV Park", "46201", NONE, NONE, "456 Elm Road", NULL)
        EXCEPT !.rating = <<3>>, !.total_reviews = <<2>>, !.email = "info@yelp.example",
               !.park_type = "rv_park"],
     Listing("csv_import", "", "", NONE, NONE, "", NULL),
     [Listing("manual", "Sunny Acres RV Park", "46201", <<0>>, Longitude, "123 Oak Street", "317-555-0103")
        EXCEPT !.county = "Marion County", !.city = "Indianapolis, IN"]}

\* sequences of distinct indices of a frame of n rows
DistinctSeqs(n) ==
    {b \in SeqsUpTo(1..n, 0, n) : \A i, j \in 1..Len(b) : i # j => b[i] # b[j]}

\* the rows as stored: ids ascending, external ids distinct, not processed
Stored(rows) ==
    [k \in 1..Len(rows) |->
        [row |-> [rows[k] EXCEPT !.id = 100 + k, !.external_id = "ext-" \o ToString(100 + k)],
         is_processed |-> FALSE]]

NoSession == [status |-> "closed", inserted |-> {}, marked |-> {}]

(***************************************************************************)
(* process_parks_raw_to_master, step by step                               *)
(***************************************************************************)
\* between two runs nothing of the previous run's working set is kept
Idle ==
    /\ pc = "idle" /\ df = <<>> /\ blocks = <<>> /\ block_indices = <<>>
    /\ all_duplicate_groups = <<>> /\ master_records = <<>> /\ dup = <<>> /\ normalized_address = <<>>
    /\ OwnersIdle /\ DashboardIdle
    /\ insert_count = 0 /\ error_count = 0 /\ session = NoSession
    /\ attempts = <<>> /\ runs = 0

Init ==
    /\ Idle
    /\ parks_master = {}
    /\ parks_raw \in {Stored(rows) : rows \in SeqsUpTo(PipelineRows, 0, MaxRecords)}

\* SELECT ... FROM parks_raw WHERE is_processed = FALSE ORDER BY id
unprocessed_rows == 
    LET pending == SelectSeq(parks_raw, LAMBDA r : ~r.is_processed)
    IN [k \in 1..Len(pending) |-> pending[k].row]

\* step 1, with rows: df = pd.DataFrame(rows)
LoadRaw ==
    /\ pc \in {"idle", "done", "raised"}
    /\ runs < MaxRuns
    /\ Len(unprocessed_rows) > 0
    /\ runs' = runs + 1
    /\ df' = unprocessed_rows
    /\ pc' = "loaded"
    /\ blocks' = <<>> /\ all_duplicate_groups' = <<>> /\ master_records' = <<>>
    /\ insert_count' = 0 /\ error_count' = 0 /\ attempts' = <<>>
    /\ session' = NoSession
    /\ UNCHANGED <<ownerVars, dashboardVars, parks_raw, parks_master, block_indices, dup, normalized_address>>

\* variant: no unprocessed row is an error of the run
NoRowsRaises ==
    /\ pc \in {"idle", "done", "raised"}
    /\ runs < MaxRuns
    /\ Len(unprocessed_rows) = 0
    /\ runs' = runs + 1
    /\ df' = <<>>
    /\ pc' = "raised"
    /\ blocks' = <<>> /\ all_duplicate_groups' = <<>> /\ master_records' = <<>>
    /\ insert_count' = 0 /\ error_count' = 0 /\ attempts' = <<>>
    /\ session' = NoSession
    /\ UNCHANGED <<ownerVars, dashboardVars, parks_raw, parks_master, block_indices, dup, normalized_address>>

\* step 1, if not rows: warning and return
NoRows ==
    /\ pc \in {"idle", "done", "raised"}
    /\ runs < MaxRuns
    /\ Len(unprocessed_rows) = 0
    /\ runs' = runs + 1
    /\ df' = <<>>
    /\ pc' = "done"
    /\ blocks' = <<>> /\ all_duplicate_groups' = <<>> /\ master_records' = <<>>
    /\ insert_count' = 0 /\ error_count' = 0 /\ attempts' = <<>>
    /\ session' = NoSession
    /\ UNCHANGED <<ownerVars, dashboardVars, parks_raw, parks_master, block_indices, dup, normalized_address>>

\* step 2: df['address_normalized'] = df.apply(normalize_address_row, axis=1)
NormalizeAddresses ==
    /\ pc = "loaded"
    /\ df' = [k \in 1..Len(df) |-> [df[k] EXCEPT !.address_normalized = normalize_address_row(df[k])]]
    /\ pc' = "normalized"
    /\ UNCHANGED <<ownerVars, dashboardVars, parks_raw, parks_master, blocks, block_indices, all_duplicate_groups,
                   master_records, dup, insert_count, error_count, session, attempts, runs,
                   normalized_address>>

\* step 3: blocks = blocker.block_by_zip_and_proximity(df, proximity_meters=500)
Blocking ==
    /\ pc = "normalized"
    /\ blocks' = block_by_zip_and_proximity(df, ProximityMeters)
    /\ pc' = "blocked"
    /\ UNCHANGED <<ownerVars, dashboardVars, parks_raw, parks_master, df, block_indices, all_duplicate_groups,
                   master_records, dup, insert_count, error_count, session, attempts, runs,
                   normalized_address>>

\* variant: only the blocks of two or more records are scanned
RECURSIVE groups_of_blocks_skip_single(_, _, _, _)
groups_of_blocks_skip_single(frame, bs, k, acc) ==
    IF k > Len(bs) THEN acc
    ELSE groups_of_blocks_skip_single(frame, bs, k + 1,
             IF Len(bs[k].members) > 1
             THEN acc \o find_duplicate_groups(frame, bs[k].members) ELSE acc)

\* variant: the whole frame is scanned as one block
groups_of_blocks_whole_frame(frame, bs, k, acc) ==
    find_duplicate_groups(frame, frame_index(frame))

RECURSIVE groups_of_blocks(_, _, _, _)
groups_of_blocks(frame, bs, k, acc) ==
    IF k > Len(bs) THEN acc
    ELSE groups_of_blocks(frame, bs, k + 1, acc \o find_duplicate_groups(frame, bs[k].members))

\* step 4: the loop over blocks.items()
DetectDuplicates ==
    /\ pc = "blocked"
    /\ all_duplicate_groups' = groups_of_blocks(df, blocks, 1, <<>>)
    /\ pc' = "detected"
    /\ UNCHANGED <<ownerVars, dashboardVars, parks_raw, parks_master, df, blocks, block_indices, master_records, dup,
                   insert_count, error_count, session, attempts, runs, normalized_address>>

\* step 5: the loop over all_duplicate_groups; uuid4 gives each master a fresh
\* identifier, here the run and the position of the group.  Then the second
\* session is opened with insert_count = error_count = 0.
Consolidate ==
    /\ pc = "detected"
    /\ master_records' = [k \in 1..Len(all_duplicate_groups) |->
                            consolidate_duplicate_group(df, all_duplicate_groups[k], <<runs, k>>)]
    /\ attempts' = [k \in 1..Len(all_duplicate_groups) |-> 0]
    /\ insert_count' = 0 /\ error_count' = 0
    /\ session' = [status |-> "active", inserted |-> {}, marked |-> {}]
    /\ pc' = "consolidated"
    /\ UNCHANGED <<ownerVars, dashboardVars, parks_raw, parks_master, df, blocks, block_indices, all_duplicate_groups,
                   dup, runs, normalized_address>>

\* position of the loop over master_records
cursor == insert_count + error_count + 1

\* step 6, try: the INSERT is executed and insert_count += 1
InsertMaster ==
    /\ pc = "consolidated"
    /\ cursor <= Len(master_records)
    /\ session.status = "active"
    /\ session' = [session EXCEPT !.inserted = @ \cup {master_records[cursor]}]
    /\ insert_count' = insert_count + 1
    /\ attempts' = [attempts EXCEPT ![cursor] = @ + 1]
    /\ UNCHANGED <<ownerVars, dashboardVars, parks_raw, parks_master, pc, df, blocks, block_indices,
                   all_duplicate_groups, master_records, dup, error_count, runs,
                   normalized_address>>

\* variant: no except clause, the error of the INSERT ends the run
InsertFailsAborts(in_server) ==
    /\ pc = "consolidated"
    /\ cursor <= Len(master_records)
    /\ session' = NoSession
    /\ pc' = "raised"
    /\ attempts' = [attempts EXCEPT ![cursor] = @ + 1]
    /\ UNCHANGED <<ownerVars, dashboardVars, parks_raw, parks_master, df, blocks, block_indices, all_duplicate_groups,
                   master_records, dup, insert_count, error_count, runs, normalized_address>>

\* step 6, except Exception: the error is logged and error_count += 1.  An
\* error raised before the statement reaches the server (in_server = FALSE)
\* leaves the transaction usable; an error of the server aborts the
\* transaction, and every later statement of the session fails.
InsertFails(in_server) ==
    /\ pc = "consolidated"
    /\ cursor <= Len(master_records)
    /\ session.status = "aborted" => in_server
    /\ session' = [session EXCEPT !.status = IF in_server THEN "aborted" ELSE @]
    /\ error_count' = error_count + 1
    /\ attempts' = [attempts EXCEPT ![cursor] = @ + 1]
    /\ UNCHANGED <<ownerVars, dashboardVars, parks_raw, parks_master, pc, df, blocks, block_indices,
                   all_duplicate_groups, master_records, dup, insert_count, runs,
                   normalized_address>>

\* step 6, after the loop: UPDATE parks_raw SET is_processed = TRUE WHERE id IN :ids
MarkProcessed ==
    /\ pc = "consolidated"
    /\ cursor > Len(master_records)
    /\ session.status = "active"
    /\ session' = [session EXCEPT !.marked = {df[k].id : k \in 1..Len(df)}]
    /\ pc' = "marked"
    /\ UNCHANGED <<ownerVars, dashboardVars, parks_raw, parks_master, df, blocks, block_indices, all_duplicate_groups,
                   master_records, dup, insert_count, error_count, attempts, runs,
                   normalized_address>>

\* session.commit(): the pending rows and marks are committed together
Commit ==
    /\ pc = "marked"
    /\ parks_master' = parks_master \cup session.inserted
    /\ parks_raw' = [k \in 1..Len(parks_raw) |->
                        IF parks_raw[k].row.id \in session.marked
                        THEN [parks_raw[k] EXCEPT !.is_processed = TRUE]
                        ELSE parks_raw[k]]
    /\ session' = NoSession
    /\ pc' = "done"
    /\ UNCHANGED <<ownerVars, dashboardVars, df, blocks, block_indices, all_duplicate_groups, master_records, dup,
                   insert_count, error_count, attempts, runs, normalized_address>>

\* the UPDATE or the commit raises (always so in an aborted transaction):
\* get_db_session rolls back and re-raises, the driver ends with the exception
SessionFails ==
    /\ \/ pc = "consolidated" /\ cursor > Len(master_records)
       \/ pc = "marked"
    /\ session' = NoSession
    /\ pc' = "raised"
    /\ UNCHANGED <<ownerVars, dashboardVars, parks_raw, parks_master, df, blocks, block_indices, all_duplicate_groups,
                   master_records, dup, insert_count, error_count, attempts, runs,
                   normalized_address>>

Next ==
    \/ LoadRaw
    \/ NoRows
    \/ NormalizeAddresses
    \/ Blocking
    \/ DetectDuplicates
    \/ Consolidate
    \/ InsertMaster
    \/ \E in_server \in BOOLEAN : InsertFails(in_server)
    \/ MarkProcessed
    \/ Commit
    \/ SessionFails

Spec == Init /\ [][Next]_vars

(***************************************************************************)
(* The components on their own, over wider inputs                          *)
(***************************************************************************)
Normalized(rows) ==
    [k \in 1..Len(rows) |-> [rows[k] EXCEPT !.address_normalized = NormalizedAddresses[rows[k].address]]]

\* block_by_zip_and_proximity on any frame of BlockRows
InitBlock ==
    /\ parks_raw = <<>> /\ parks_master = {}
    /\ blocks = <<>> /\ block_indices = <<>>
    /\ all_duplicate_groups = <<>> /\ master_records = <<>> /\ dup = <<>> /\ normalized_address = <<>>
    /\ OwnersIdle /\ DashboardIdle
    /\ insert_count = 0 /\ error_count = 0 /\ session = NoSession
    /\ attempts = <<>> /\ runs = 1
    /\ pc = "normalized"
    /\ df \in {Normalized(rows) : rows \in SeqsUpTo(BlockRows, 1, MaxRecords)}

SpecBlock == InitBlock /\ [][Blocking]_vars

\* are_duplicates on any two rows of DupRows, in both orders
InitDup ==
    /\ parks_raw = <<>> /\ parks_master = {}
    /\ blocks = <<>> /\ block_indices = <<>>
    /\ all_duplicate_groups = <<>> /\ master_records = <<>> /\ dup = <<>> /\ normalized_address = <<>>
    /\ OwnersIdle /\ DashboardIdle
    /\ insert_count = 0 /\ error_count = 0 /\ session = NoSession
    /\ attempts = <<>> /\ runs = 1
    /\ pc = "pair"
    /\ df \in {Normalized(rows) : rows \in [1..2 -> DupRows]}

Compare ==
    /\ pc = "pair"
    /\ dup' = <<are_duplicates(df[1], df[2], NameThreshold, DistanceThreshold),
                are_duplicates(df[2], df[1], NameThreshold, DistanceThreshold)>>
    /\ pc' = "compared"
    /\ UNCHANGED <<ownerVars, dashboardVars, parks_raw, parks_master, df, blocks, block_indices, all_duplicate_groups,
                   master_records, insert_count, error_count, session, attempts, runs,
                   normalized_address>>

SpecDup == InitDup /\ [][Compare]_vars

\* find_duplicate_groups on any block of distinct indices of a frame of GroupRows
InitGroups ==
    /\ parks_raw = <<>> /\ parks_master = {}
    /\ blocks = <<>>
    /\ all_duplicate_groups = <<>> /\ master_records = <<>> /\ dup = <<>> /\ normalized_address = <<>>
    /\ OwnersIdle /\ DashboardIdle
    /\ insert_count = 0 /\ error_count = 0 /\ session = NoSession
    /\ attempts = <<>> /\ runs = 1
    /\ pc = "block"
    /\ df \in {Normalized(rows) : rows \in SeqsUpTo(GroupRows, 1, MaxBlock)}
    /\ block_indices \in DistinctSeqs(Len(df))

FindGroups ==
    /\ pc = "block"
    /\ all_duplicate_groups' = find_duplicate_groups(df, block_indices)
    /\ pc' = "grouped"
    /\ UNCHANGED <<ownerVars, dashboardVars, parks_raw, parks_master, df, blocks, block_indices, master_records, dup,
                   insert_count, error_count, session, attempts, runs, normalized_address>>

SpecGroups == InitGroups /\ [][FindGroups]_vars

\* consolidate_duplicate_group on any group of MasterRows
InitMaster ==
    /\ parks_raw = <<>> /\ parks_master = {}
    /\ blocks = <<>> /\ block_indices = <<>>
    /\ master_records = <<>> /\ dup = <<>> /\ normalized_address = <<>>
    /\ OwnersIdle /\ DashboardIdle
    /\ insert_count = 0 /\ error_count = 0 /\ session = NoSession
    /\ attempts = <<>> /\ runs = 1
    /\ pc = "detected"
    /\ df \in {Normalized(rows) : rows \in SeqsUpTo(MasterRows, 1, MaxGroup)}
    /\ all_duplicate_groups = <<[k \in 1..Len(df) |-> k]>>

SpecMaster == InitMaster /\ [][Consolidate]_vars

\* the indices 1..n without j
without(n, j) == [k \in 1..(n - 1) |-> IF k < j THEN k ELSE k + 1]

\* consolidate_duplicate_group on a group of MasterRows and on the same group
\* less one member
InitMasterPair ==
    /\ parks_raw = <<>> /\ parks_master = {}
    /\ blocks = <<>> /\ block_indices = <<>>
    /\ master_records = <<>> /\ dup = <<>> /\ normalized_address = <<>>
    /\ OwnersIdle /\ DashboardIdle
    /\ insert_count = 0 /\ error_count = 0 /\ session = NoSession
    /\ attempts = <<>> /\ runs = 1
    /\ pc = "detected"
    /\ df \in {Normalized(rows) : rows \in SeqsUpTo(MasterRows, 2, MaxGroup)}
    /\ \E j \in 1..Len(df) :
          all_duplicate_groups = <<[k \in 1..Len(df) |-> k], without(Len(df), j)>>

SpecMasterPair == InitMasterPair /\ [][Consolidate]_vars

\* parse_address on any of AddressTexts, then on the full_normalized it returned
InitAddress ==
    /\ parks_raw = <<>> /\ parks_master = {}
    /\ blocks = <<>> /\ block_indices = <<>>
    /\ all_duplicate_groups = <<>> /\ master_records = <<>>
    /\ dup = <<>> /\ normalized_address = <<>>
    /\ OwnersIdle /\ DashboardIdle
    /\ insert_count = 0 /\ error_count = 0 /\ session = NoSession
    /\ attempts = <<>> /\ runs = 1
    /\ pc = "address"
    /\ df \in {<<[EmptyRow EXCEPT !.address = a]>> : a \in AddressTexts}

ParseAddress ==
    /\ pc = "address"
    /\ normalized_address' = <<parse_address(df[1].address)>>
    /\ pc' = "parsed"
    /\ UNCHANGED <<ownerVars, dashboardVars, parks_raw, parks_master, df, blocks, block_indices, all_duplicate_groups,
                   master_records, dup, insert_count, error_count, session, attempts, runs>>

ParseAgain ==
    /\ pc = "parsed"
    /\ truthy(normalized_address[1].full_normalized)
    /\ normalized_address' =
          Append(normalized_address, parse_address(normalized_address[1].full_normalized))
    /\ pc' = "parsed_again"
    /\ UNCHANGED <<ownerVars, dashboardVars, parks_raw, parks_master, df, blocks, block_indices, all_duplicate_groups,
                   master_records, dup, insert_count, error_count, session, attempts, runs>>

SpecAddress == InitAddress /\ [][ParseAddress \/ ParseAgain]_vars

(***************************************************************************)
(* OwnerLookupOrchestrator._lookup_owner_with_retry                        *)
(* (src/src/owners/orchestrator.py)                                        *)
(***************************************************************************)
MaxRetries == 3

\* FetchResult(success, records, error_message, retry_after_seconds)
FetchResult(success, records, error_message, retry_after_seconds) ==
    [success |-> success, records |-> records, error_message |-> error_message,
     retry_after_seconds |-> retry_after_seconds]

\* error messages of failed lookups
ErrorMessages == {"", "Nenhum resultado encontrado no Google", "Rate limit exceeded",
                  "HTTP 429: RATE LIMIT", "Too Many Requests"}

\* what fetcher.lookup_owner can return
LookupResults ==
    {FetchResult(TRUE, <<"owner_record">>, "", NONE)}
    \cup {FetchResult(FALSE, <<>>, m, s) : m \in ErrorMessages, s \in {NONE, <<0>>, <<3>>, <<-1>>}}

\* "rate limit" in result.error_message.lower()
rate_limited(error_message) == contains(lower(error_message), "rate limit")

RateLimited == Tabulate([m \in ErrorMessages |-> rate_limited(m)])

\* variant: one more iteration
in_range_inclusive(value, max) == value <= max + 1

\* for attempt in range(1, self.max_retries + 1)
in_range(value, max) == value <= max

\* wait_time = 2 ** (attempt - 1)
backoff(n) == 2 ^ (n - 1)

\* wait_time of a rate-limited result
wait_time_of(fetch_result, n) ==
    IF fetch_result.retry_after_seconds # NONE /\ fetch_result.retry_after_seconds[1] # 0
    THEN fetch_result.retry_after_seconds[1]
    ELSE backoff(n)

\* time.sleep raises ValueError for a negative length
sleep_raises(seconds) == seconds < 0

\* return of _lookup_owner_with_retry
Return(value) ==
    /\ returned' = <<value>>
    /\ pc' = "returned"
    /\ UNCHANGED <<attempt, wait_times>>

\* time.sleep(wait_time), then the next iteration
Sleep(seconds) ==
    /\ wait_times' = Append(wait_times, seconds)
    /\ attempt' = attempt + 1
    /\ UNCHANGED <<pc, returned>>

\* except Exception as e: the last attempt returns a failed FetchResult, an
\* earlier one sleeps 2 ** (attempt - 1) seconds; an exception of this
\* time.sleep would leave the function
ExceptHandler(e) ==
    /\ exception' = <<e>>
    /\ IF attempt = max_retries
       THEN Return(FetchResult(FALSE, <<>>,
                               "Falha apos " \o ToString(max_retries) \o " tentativas: " \o e, NONE))
       ELSE IF sleep_raises(backoff(attempt))
            THEN pc' = "raised" /\ UNCHANGED <<attempt, wait_times, returned>>
            ELSE Sleep(backoff(attempt))

\* one iteration in which fetcher.lookup_owner returns a FetchResult
LookupOwnerReturns ==
    /\ pc = "lookup"
    /\ in_range(attempt, max_retries)
    /\ lookup_calls' = lookup_calls + 1
    /\ \E fetch_result \in LookupResults :
          /\ result' = fetch_result
          /\ IF fetch_result.success \/ ~RateLimited[fetch_result.error_message]
             THEN exception' = NONE /\ Return(fetch_result)
             ELSE IF sleep_raises(wait_time_of(fetch_result, attempt))
                  THEN ExceptHandler("ValueError")
                  ELSE exception' = NONE /\ Sleep(wait_time_of(fetch_result, attempt))
    /\ UNCHANGED <<dedupVarsButPc, dashboardVars, max_retries>>

\* one iteration in which fetcher.lookup_owner raises
LookupOwnerRaises ==
    /\ pc = "lookup"
    /\ in_range(attempt, max_retries)
    /\ lookup_calls' = lookup_calls + 1
    /\ ExceptHandler("ConnectionError")
    /\ UNCHANGED <<dedupVarsButPc, dashboardVars, max_retries, result>>

\* the loop is over: return FetchResult(success=False, ...)
RetriesExhausted ==
    /\ pc = "lookup"
    /\ ~in_range(attempt, max_retries)
    /\ Return(FetchResult(FALSE, <<>>, "Esgotadas " \o ToString(max_retries) \o " tentativas", NONE))
    /\ UNCHANGED <<dedupVarsButPc, dashboardVars, max_retries, lookup_calls, result, exception>>

\* a call of _lookup_owner_with_retry of an orchestrator of any max_retries
InitRetry ==
    /\ parks_raw = <<>> /\ parks_master = {} /\ df = <<>>
    /\ blocks = <<>> /\ block_indices = <<>>
    /\ all_duplicate_groups = <<>> /\ master_records = <<>> /\ dup = <<>>
    /\ normalized_address = <<>> /\ DashboardIdle
    /\ insert_count = 0 /\ error_count = 0 /\ session = NoSession
    /\ attempts = <<>> /\ runs = 0
    /\ pc = "lookup"
    /\ max_retries \in 0..MaxRetries
    /\ attempt = 1 /\ lookup_calls = 0
    /\ result = NONE /\ exception = NONE /\ wait_times = <<>> /\ returned = NONE

NextRetry == LookupOwnerReturns \/ LookupOwnerRaises \/ RetriesExhausted

\* the call runs on one thread and every time.sleep is finite
SpecRetry == InitRetry /\ [][NextRetry]_vars /\ WF_vars(NextRetry)

(***************************************************************************)
(* The dashboard's pipeline routes (src/web/app.py): api_run_pipeline and  *)
(* the worker threads run_phase1 .. run_phase5, run_export.  add_log only  *)
(* appends to pipeline_state['logs'], which none of these functions reads. *)
(***************************************************************************)
MaxRequests == 2

Phases == {"phase1", "phase2", "phase3", "phase4", "phase5", "export"}
\* the value of data.get('phase') of a request: missing, a phase, or unknown
RequestPhases == Phases \cup {NULL, "phase6"}

\* key of the flag of a phase in pipeline_state
running_key(phase) == phase \o "_running"
RunningKeys == {running_key(phase) : phase \in Phases}

\* pipeline_state as the module creates it
InitialPipelineState ==
    [k \in RunningKeys \cup {"current_task"} |-> IF k = "current_task" THEN NULL ELSE FALSE]

\* any([pipeline_state['phase1_running'], ..., pipeline_state['export_running']])
any_running(state) == \E k \in RunningKeys : state[k]

RequestThread(r) == <<"request", r>>
WorkerThread(r) == <<"worker", r>>

Response(status, body) == [status |-> status, body |-> body]

\* api_run_pipeline: a request arrives; without a phase it is answered 400
ApiRunPipeline(r, phase) ==
    /\ requests[r].pc = "new"
    /\ requests' = [requests EXCEPT ![r] =
                      IF ~truthy(phase)
                      THEN [pc |-> "done", phase |-> phase,
                            response |-> Response(400, "Phase not specified")]
                      ELSE [pc |-> "lock", phase |-> phase, response |-> NONE]]
    /\ UNCHANGED <<dedupVars, ownerVars, pipeline_state, state_lock, threads>>

\* api_run_pipeline: with state_lock
RequestAcquires(r) ==
    /\ requests[r].pc = "lock"
    /\ state_lock = NONE
    /\ state_lock' = RequestThread(r)
    /\ requests' = [requests EXCEPT ![r].pc = "locked"]
    /\ UNCHANGED <<dedupVars, ownerVars, pipeline_state, threads>>

\* api_run_pipeline: the test of the flags under the lock, and its release
CheckRunning(r) ==
    /\ requests[r].pc = "locked"
    /\ state_lock = RequestThread(r)
    /\ state_lock' = NONE
    /\ requests' = [requests EXCEPT ![r] =
                      IF any_running(pipeline_state)
                      THEN [@ EXCEPT !.pc = "done",
                                     !.response = Response(400, "Another phase is already running")]
                      ELSE [@ EXCEPT !.pc = "start"]]
    /\ UNCHANGED <<dedupVars, ownerVars, pipeline_state, threads>>

\* api_run_pipeline: threading.Thread(target=run_<phase>), thread.start()
StartThread(r) ==
    /\ requests[r].pc = "start"
    /\ IF requests[r].phase \in Phases
       THEN /\ threads' = [threads EXCEPT ![r] = [pc |-> "lock", target |-> requests[r].phase]]
            /\ requests' = [requests EXCEPT ![r].pc = "done",
                                            ![r].response = Response(200, "started")]
       ELSE /\ requests' = [requests EXCEPT ![r].pc = "done",
                                            ![r].response = Response(400, "Unknown phase")]
            /\ UNCHANGED threads
    /\ UNCHANGED <<dedupVars, ownerVars, pipeline_state, state_lock>>

\* run_phaseN / run_export: with state_lock, before the try and in the finally
WorkerAcquires(t) ==
    /\ threads[t].pc \in {"lock", "finally"}
    /\ state_lock = NONE
    /\ state_lock' = WorkerThread(t)
    /\ threads' = [threads EXCEPT ![t].pc = IF @ = "lock" THEN "set" ELSE "clear"]
    /\ UNCHANGED <<dedupVars, ownerVars, pipeline_state, requests>>

\* run_phaseN / run_export: the flag and current_task are set (the task label
\* is written as the phase)
SetRunning(t) ==
    /\ threads[t].pc = "set"
    /\ state_lock = WorkerThread(t)
    /\ pipeline_state' = [pipeline_state EXCEPT ![running_key(threads[t].target)] = TRUE,
                                                !["current_task"] = threads[t].target]
    /\ state_lock' = NONE
    /\ threads' = [threads EXCEPT ![t].pc = "try"]
    /\ UNCHANGED <<dedupVars, ownerVars, requests>>

\* run_phaseN / run_export: the try block ends (the subprocess returns, times
\* out or raises)
RunPhase(t) ==
    /\ threads[t].pc = "try"
    /\ threads' = [threads EXCEPT ![t].pc = "finally"]
    /\ UNCHANGED <<dedupVars, ownerVars, pipeline_state, state_lock, requests>>

\* run_phaseN / run_export: finally, the flag and current_task are reset
ClearRunning(t) ==
    /\ threads[t].pc = "clear"
    /\ state_lock = WorkerThread(t)
    /\ pipeline_state' = [pipeline_state EXCEPT ![running_key(threads[t].target)] = FALSE,
                                                !["current_task"] = NULL]
    /\ state_lock' = NONE
    /\ threads' = [threads EXCEPT ![t].pc = "finished"]
    /\ UNCHANGED <<dedupVars, ownerVars, requests>>

\* the dashboard as started, and MaxRequests requests to come
InitDashboard ==
    /\ parks_raw = <<>> /\ parks_master = {} /\ df = <<>>
    /\ blocks = <<>> /\ block_indices = <<>>
    /\ all_duplicate_groups = <<>> /\ master_records = <<>> /\ dup = <<>>
    /\ normalized_address = <<>> /\ OwnersIdle
    /\ insert_count = 0 /\ error_count = 0 /\ session = NoSession
    /\ attempts = <<>> /\ runs = 0
    /\ pc = "serving"
    /\ pipeline_state = InitialPipelineState
    /\ state_lock = NONE
    /\ requests = [r \in 1..MaxRequests |-> [pc |-> "new", phase |-> NULL, response |-> NONE]]
    /\ threads = [r \in 1..MaxRequests |-> [pc |-> "unstarted", target |-> NULL]]

NextDashboard ==
    \/ \E r \in 1..MaxRequests, phase \in RequestPhases : ApiRunPipeline(r, phase)
    \/ \E r \in 1..MaxRequests : RequestAcquires(r)
    \/ \E r \in 1..MaxRequests : CheckRunning(r)
    \/ \E r \in 1..MaxRequests : StartThread(r)
    \/ \E t \in 1..MaxRequests : WorkerAcquires(t)
    \/ \E t \in 1..MaxRequests : SetRunning(t)
    \/ \E t \in 1..MaxRequests : RunPhase(t)
    \/ \E t \in 1..MaxRequests : ClearRunning(t)

SpecDashboard == InitDashboard /\ [][NextDashboard]_vars

(***************************************************************************)
(* Properties                                                              *)
(***************************************************************************)
\* positions <<b, k>> of the members of a sequence of index lists
Positions(lists) == UNION {{<<b, k>> : k \in 1..Len(lists[b])} : b \in 1..Len(lists)}
\* how many times the index i appears in the lists
Occurrences(lists, i) == Cardinality({p \in Positions(lists) : lists[p[1]][p[2]] = i})
BlockMembers == [b \in 1..Len(blocks) |-> blocks[b].members]
HasPrefix(s, prefix) == Len(s) >= Len(prefix) /\ SubSeq(s, 1, Len(prefix)) = prefix
Range(f) == {f[k] : k \in DOMAIN f}

\* C1: the blocks returned by block_by_zip_and_proximity hold every index of
\* the frame exactly once, and nothing but indices of the frame.
C1_BlocksCoverEveryIndexOnce ==
    pc = "blocked" =>
        /\ \A i \in 1..Len(df) : Occurrences(BlockMembers, i) = 1
        /\ \A p \in Positions(BlockMembers) : BlockMembers[p[1]][p[2]] \in 1..Len(df)

C1_Witness ==
    /\ pc = "blocked"
    /\ \E b \in 1..Len(blocks) : HasPrefix(blocks[b].id, "geo_cluster_") /\ Len(blocks[b].members) >= 2
    /\ \E b \in 1..Len(blocks) : HasPrefix(blocks[b].id, "no_geo_")

\* C2: the groups returned by find_duplicate_groups partition the block: every
\* index of the block is in exactly one group, once, and no group holds an
\* index that is not in the block.
C2_GroupsPartitionBlock ==
    pc = "grouped" =>
        /\ \A i \in Range(block_indices) : Occurrences(all_duplicate_groups, i) = 1
        /\ \A p \in Positions(all_duplicate_groups) :
              all_duplicate_groups[p[1]][p[2]] \in Range(block_indices)

C2_Witness ==
    /\ pc = "grouped"
    /\ Len(block_indices) = 3
    /\ Len(all_duplicate_groups) = 2
    /\ block_indices[1] > block_indices[2]

\* the masters whose provenance names the external id
MastersOf(external_id) ==
    {k \in 1..Len(master_records) :
        \E n \in 1..Len(master_records[k].source_ids) :
            master_records[k].source_ids[n].external_id = external_id}

\* C3: once a run over a non-empty set of listings has consolidated, every
\* loaded listing is in exactly one duplicate group, there is one master
\* record per group, with its own identifier, and every listing is in the
\* provenance of exactly one master record.
C3_EveryListingInOneMaster ==
    (pc \in {"consolidated", "marked", "done", "raised"} /\ Len(df) > 0) =>
        /\ \A i \in 1..Len(df) : Occurrences(all_duplicate_groups, i) = 1
        /\ Len(master_records) = Len(all_duplicate_groups)
        /\ \A k, n \in 1..Len(master_records) :
              master_records[k].master_id = master_records[n].master_id => k = n
        /\ \A i \in 1..Len(df) : Cardinality(MastersOf(df[i].external_id)) = 1

C3_Witness ==
    /\ pc = "consolidated"
    /\ Len(df) = 3
    /\ Len(master_records) = 2
    /\ \E i \in 1..Len(df) : df[i].zip_code = NULL /\ df[i].latitude = NONE

\* C4 (as claimed): a raw listing is marked processed only if the master
\* record of its group is persisted.
C4_ProcessedOnlyWithPersistedMaster ==
    \A r \in Range(parks_raw) :
        r.is_processed =>
            \E m \in parks_master : \E n \in 1..Len(m.source_ids) :
                m.source_ids[n].external_id = r.row.external_id

\* C5: a failed INSERT is counted and the loop goes on: during the loop the
\* masters before the cursor were attempted once and the others not yet, and
\* after the loop every master was attempted exactly once and
\* insert_count + error_count is the number of master records.
C5_EveryWriteAttemptedOnce ==
    /\ pc = "consolidated" =>
          /\ cursor <= Len(master_records) + 1
          /\ \A k \in 1..Len(master_records) : attempts[k] = (IF k < cursor THEN 1 ELSE 0)
    /\ pc \in {"marked", "done", "raised"} =>
          /\ insert_count + error_count = Len(master_records)
          /\ \A k \in 1..Len(master_records) : attempts[k] = 1

C5_Witness ==
    /\ pc = "done"
    /\ error_count >= 1
    /\ Len(master_records) >= 2
    /\ ~(\E m \in parks_master : m.master_id = <<runs, 1>>)
    /\ \E m \in parks_master : m.master_id = <<runs, 2>>

SameScore(a, b) == a.num * b.den = b.num * a.den
PairDistance ==
    calculate_distance_meters(df[1].latitude[1], df[1].longitude[1],
                              df[2].latitude[1], df[2].longitude[1])
PairNameSimilarity ==
    NameSimilarity[<<NormalizedNames[df[1].name], NormalizedNames[df[2].name]>>]
PairNamed == NormalizedNames[df[1].name] # "" /\ NormalizedNames[df[2].name] # ""
PairLocated == has_coords(df[1]) /\ has_coords(df[2])

\* C6: are_duplicates(a, b) and are_duplicates(b, a) return the same boolean
\* and the same confidence.
C6_AreDuplicatesSymmetric ==
    pc = "compared" =>
        /\ dup[1].is_dup = dup[2].is_dup
        /\ SameScore(dup[1].confidence, dup[2].confidence)

C6_Witness ==
    /\ pc = "compared"
    /\ dup[1].is_dup
    /\ df[1].name # df[2].name
    /\ PairLocated
    /\ df[1].latitude # df[2].latitude

\* C7 (as claimed): two located records exactly distance_threshold apart are
\* not duplicates.
C7_AtThresholdNotDuplicate ==
    (pc = "compared" /\ PairLocated /\ PairDistance = DistanceThreshold) => ~dup[1].is_dup

\* C7 (amended): two located records exactly distance_threshold apart pass the
\* distance check: with names at or above the name threshold they are
\* duplicates, with distance score 0, so confidence 0.7 * name_similarity / 100.
C7_AtThresholdStillDuplicate ==
    (/\ pc = "compared" /\ PairLocated /\ PairDistance = DistanceThreshold
     /\ PairNamed /\ ScoreGe(PairNameSimilarity, NameThreshold)) =>
        /\ dup[1].is_dup
        /\ SameScore(dup[1].confidence,
                     Fraction(7 * PairNameSimilarity.num, 1000 * PairNameSimilarity.den))

C7_Witness ==
    /\ pc = "compared" /\ PairLocated /\ PairDistance = DistanceThreshold
    /\ PairNamed /\ ScoreGe(PairNameSimilarity, NameThreshold)
    /\ dup[1].is_dup

C9_ReviewFlagIff ==
    pc = "consolidated" =>
        \A k \in 1..Len(master_records) :
            LET m == master_records[k]
            IN m.needs_manual_review <=>
                  \/ m.latitude = NONE
                  \/ m.address = NULL \/ m.address = ""
                  \/ 2 * m.confidence_score.num < m.confidence_score.den

\* C10: confidence_score and location_confidence of every master record are
\* between 0 and 1.
C10_ConfidenceBounds ==
    pc = "consolidated" =>
        \A k \in 1..Len(master_records) :
            LET m == master_records[k]
            IN /\ m.confidence_score.den > 0
               /\ 0 <= m.confidence_score.num
               /\ m.confidence_score.num <= m.confidence_score.den
               /\ m.location_confidence.den > 0
               /\ 0 <= m.location_confidence.num
               /\ m.location_confidence.num <= m.location_confidence.den

C10_Witness ==
    /\ pc = "consolidated"
    /\ \E k \in 1..Len(master_records) :
          LET m == master_records[k]
          IN /\ m.data_quality_flags.num_sources = 4
             /\ m.data_quality_flags.has_coordinates
             /\ m.data_quality_flags.has_contact_info
             /\ m.confidence_score.num = m.confidence_score.den
             /\ m.location_confidence.num < m.location_confidence.den

\* the two master records of a pair of groups, of 4 and of 3 distinct sources
PairOfFourAndThree ==
    /\ pc = "consolidated" /\ Len(master_records) = 2
    /\ master_records[1].data_quality_flags.num_sources = 4
    /\ master_records[2].data_quality_flags.num_sources = 3
SameContact ==
    master_records[1].data_quality_flags.has_contact_info
        = master_records[2].data_quality_flags.has_contact_info

\* C11 (as claimed): of two groups that agree on whether coordinates are
\* present and on whether phone-or-website is present, the one with 4
\* distinct sources gets the same confidence_score as the one with 3.
C11_FourthSourceSameScore ==
    (/\ PairOfFourAndThree /\ SameContact
     /\ (master_records[1].latitude = NONE) = (master_records[2].latitude = NONE)) =>
        SameScore(master_records[1].confidence_score, master_records[2].confidence_score)

\* C11 (amended): of two groups that agree on whether the averaged latitude
\* is non-null and non-zero and on whether phone-or-website is present, the
\* one with 4 distinct sources gets min(1.0, s + 0.4/3), where s is the
\* confidence_score of the one with 3: strictly more than s.
C11_FourthSourceRaisesScore ==
    (/\ PairOfFourAndThree /\ SameContact
     /\ (master_records[1].latitude # NONE /\ master_records[1].latitude[1].num # 0)
            = (master_records[2].latitude # NONE /\ master_records[2].latitude[1].num # 0)) =>
        LET four == master_records[1].confidence_score
            three == master_records[2].confidence_score
        IN /\ four.den = 30 /\ three.den = 30
           /\ four.num = Min(30, three.num + 4)
           /\ four.num > three.num

C11_Witness ==
    /\ PairOfFourAndThree /\ SameContact
    /\ master_records[1].data_quality_flags.has_coordinates
    /\ master_records[2].data_quality_flags.has_coordinates
    /\ master_records[1].data_quality_flags.has_contact_info
    /\ master_records[1].confidence_score.num = 30
    /\ master_records[2].confidence_score.num = 27

\* the members of the k-th duplicate group, as rows
GroupRowsOf(k) == [n \in 1..Len(all_duplicate_groups[k]) |-> df[all_duplicate_groups[k][n]]]

\* sum of the review counts of the rows from position n on, a missing count as 0
RECURSIVE ReviewCounts(_, _)
ReviewCounts(rows, n) ==
    IF n > Len(rows) THEN 0
    ELSE (IF rows[n].total_reviews = NONE THEN 0 ELSE rows[n].total_reviews[1])
         + ReviewCounts(rows, n + 1)

\* C12 (as claimed): whatever the ratings of the members, total_reviews of the
\* master record is the sum of the review counts of all members of the group.
C12_TotalReviewsIsSum ==
    pc = "consolidated" =>
        \A k \in 1..Len(master_records) :
            master_records[k].total_reviews = ReviewCounts(GroupRowsOf(k), 1)

ArbitratedFields ==
    {"name", "park_type", "address", "city", "state", "zip_code", "county", "email",
     "phone", "website"}

\* v is the value of field f of a member that no member with a non-empty
\* value of f outranks
FromBestSource(rows, f, v) ==
    \E i \in 1..Len(rows) :
        /\ rows[i][f] = v
        /\ \A j \in 1..Len(rows) :
              (rows[j][f] # NULL /\ rows[j][f] # "") =>
                  SOURCE_PRIORITY(rows[j].source) <= SOURCE_PRIORITY(rows[i].source)

\* C13: every arbitrated field of the master record is null when every
\* member's value is null or empty, and otherwise is the non-empty value of a
\* member of the highest priority among the members with a non-empty value
\* (google_places > osm > yelp > manual and unranked sources); for phone and
\* website a non-empty value of a google_places member is taken when there is
\* one.
C13_FieldArbitration ==
    pc = "consolidated" =>
        \A k \in 1..Len(master_records) : \A f \in ArbitratedFields :
            LET rows == GroupRowsOf(k)
                v == master_records[k][f]
            IN /\ (\A i \in 1..Len(rows) : rows[i][f] = NULL \/ rows[i][f] = "") <=> v = NULL
               /\ v # NULL => (v # "" /\ FromBestSource(rows, f, v))
               /\ (/\ f \in {"phone", "website"}
                   /\ \E i \in 1..Len(rows) :
                         rows[i].source = "google_places" /\ rows[i][f] # NULL /\ rows[i][f] # "")
                  => \E i \in 1..Len(rows) : rows[i].source = "google_places" /\ rows[i][f] = v

C13_Witness ==
    /\ pc = "consolidated" /\ Len(df) = 4
    /\ df[1].source = "yelp" /\ df[1].phone = "317-555-0102"
    /\ df[2].source = "osm" /\ df[2].name = "Sunny Acres RV Resort" /\ df[2].city = ""
    /\ df[3].source = "google_places" /\ df[3].name = NULL /\ df[3].phone = NULL
    /\ df[4].source = "csv_import"
    /\ master_records[1].name = "Sunny Acres RV Resort"
    /\ master_records[1].phone = "317-555-0102"
    /\ master_records[1].address = "123 Oak St."
    /\ master_records[1].city = NULL

\* the loaded rows with no postal code and no valid coordinates
Unlocated ==
    {i \in 1..Len(df) :
        /\ df[i].zip_code = NULL \/ df[i].zip_code = ""
        /\ df[i].latitude = NONE \/ df[i].longitude = NONE}

\* C14: every loaded record with no postal code and no valid coordinates is
\* the only member of a block no_geo_<index> and of no other block, is a
\* duplicate group of its own, and is the only source of exactly one master
\* record, which needs manual review.
C14_UnlocatedRecordAlone ==
    \A i \in Unlocated :
        /\ pc \in {"blocked", "detected", "consolidated", "marked", "done", "raised"} =>
              /\ \E b \in 1..Len(blocks) :
                    blocks[b].id = "no_geo_" \o ToString(i) /\ blocks[b].members = <<i>>
              /\ Occurrences(BlockMembers, i) = 1
        /\ pc \in {"detected", "consolidated", "marked", "done", "raised"} =>
              /\ \E g \in 1..Len(all_duplicate_groups) : all_duplicate_groups[g] = <<i>>
              /\ Occurrences(all_duplicate_groups, i) = 1
        /\ pc \in {"consolidated", "marked", "done", "raised"} =>
              /\ Cardinality(MastersOf(df[i].external_id)) = 1
              /\ \A k \in MastersOf(df[i].external_id) :
                    /\ Len(master_records[k].source_ids) = 1
                    /\ master_records[k].needs_manual_review

C14_Witness ==
    /\ pc = "consolidated" /\ Len(df) = 3
    /\ Cardinality(Unlocated) = 2
    /\ \E i \in Unlocated : df[i].zip_code = "" /\ df[i].latitude # NONE
    /\ \E i \in Unlocated : df[i].zip_code = NULL /\ df[i].latitude = NONE /\ df[i].address # NULL
    /\ Len(master_records) = 3
    /\ \A i \in Unlocated : \A k \in MastersOf(df[i].external_id) :
          master_records[k].needs_manual_review

AfterNormalization == pc \in {"normalized", "blocked", "detected", "consolidated", "marked", "done", "raised"}
AfterConsolidation == pc \in {"consolidated", "marked", "done", "raised"}

\* C15 (as claimed): after normalization the address column read by the later
\* stages is the normalized-full-string of the listing's address, and the
\* address of a master record is the normalized-full-string of a member,
\* never raw address text.
C15_OnlyNormalizedAddressConsumed ==
    /\ AfterNormalization =>
          \A k \in 1..Len(df) :
              df[k].address_normalized = ParsedAddresses[df[k].address].full_normalized
    /\ AfterConsolidation =>
          \A k \in 1..Len(master_records) :
              \/ master_records[k].address = NULL
              \/ \E n \in 1..Len(GroupRowsOf(k)) :
                    master_records[k].address = ParsedAddresses[GroupRowsOf(k)[n].address].full_normalized

\* C15 (amended): the column address_normalized given to blocking and
\* duplicate detection holds the normalized-full-string when that is
\* non-empty and otherwise the listing's raw address, and consolidation takes
\* the address of the master record from the raw address of the members: the
\* non-empty raw address of a member of the best source, or null when no
\* member has one.
C15_NormalizedOrRawAddress ==
    /\ AfterNormalization =>
          \A k \in 1..Len(df) :
              LET n == ParsedAddresses[df[k].address].full_normalized
              IN df[k].address_normalized = (IF n # NULL /\ n # "" THEN n ELSE df[k].address)
    /\ AfterConsolidation =>
          \A k \in 1..Len(master_records) :
              LET rows == GroupRowsOf(k)
                  v == master_records[k].address
              IN /\ (\A i \in 1..Len(rows) : rows[i].address = NULL \/ rows[i].address = "")
                        <=> v = NULL
                 /\ v # NULL => (v # "" /\ FromBestSource(rows, "address", v))

C15_Witness ==
    /\ pc = "consolidated"
    /\ \E k \in 1..Len(df) : df[k].address = "#" /\ df[k].address_normalized = "#"
    /\ \E k \in 1..Len(master_records) :
          /\ master_records[k].address = "123 Oak Street"
          /\ \E n \in 1..Len(GroupRowsOf(k)) :
                /\ GroupRowsOf(k)[n].address = "123 Oak Street"
                /\ GroupRowsOf(k)[n].address_normalized = "123 oak street"

\* the cleaned text of the address given to parse_address, and whether the
\* structured parse of it fails
CleanedAddress == clean_address_string(df[1].address)
ParseFails == CleanedAddress # "" /\ usaddress_tag(CleanedAddress).raised
Parsed == pc \in {"parsed", "parsed_again"}

\* every whole-word street type of the fixed dictionary replaced by its abbreviation
AbbreviateStreetTypes(s) ==
    LET names == <<"street", "avenue", "boulevard", "road", "drive", "lane", "court",
                   "circle", "place", "highway", "parkway", "trail">>
        from[n \in 0..Len(names)] ==
            IF n = 0 THEN s ELSE replace_word(from[n - 1], names[n], STREET_TYPE_MAP[names[n]])
    IN from[Len(names)]

\* C16 (as claimed): when the structured parse fails, full_normalized is the
\* cleaned address lowercased with street, avenue, boulevard, road, drive,
\* lane, court, circle, place, highway, parkway and trail replaced, as whole
\* words, by st, ave, blvd, rd, dr, ln, ct, cir, pl, hwy, pkwy and trl.
C16_FallbackAbbreviatesAll ==
    (Parsed /\ ParseFails) =>
        normalized_address[1].full_normalized = AbbreviateStreetTypes(lower(CleanedAddress))

\* C17: parse_address returns a NormalizedAddress for every input: the empty
\* one for a null or empty address or one that cleans to nothing, one with
\* parse_success true when the structured parse succeeds, and, when the
\* structured parse fails, one with parse_success false and a non-empty
\* full_normalized.
C17_ParseAddressAlwaysReturns ==
    Parsed =>
        LET r == normalized_address[1]
        IN /\ DOMAIN r = DOMAIN EmptyNormalizedAddress
           /\ r.parse_success \in BOOLEAN
           /\ CleanedAddress = "" => r = EmptyNormalizedAddress
           /\ (CleanedAddress # "" /\ ~ParseFails) => r.parse_success
           /\ ParseFails =>
                 /\ ~r.parse_success
                 /\ r.full_normalized # NULL /\ r.full_normalized # ""

C17_Witness ==
    /\ Parsed /\ ParseFails
    /\ df[1].address = "123 Oak Drive & 456 Elm Drive"
    /\ ~normalized_address[1].parse_success
    /\ normalized_address[1].full_normalized = "123 oak drive 456 elm drive"

C19_AlternativeNamesAreDistinctNames ==
    pc = "consolidated" =>
        \A k \in 1..Len(master_records) :
            LET m == master_records[k]
                names == {GroupRowsOf(k)[i].name : i \in 1..Len(GroupRowsOf(k))} \ {NULL, ""}
            IN /\ Range(m.alternative_names) = names
               /\ Len(m.alternative_names) = Cardinality(names)
               /\ m.name # NULL => m.name \in Range(m.alternative_names)

C19_Witness ==
    /\ pc = "consolidated" /\ Len(df) = 4
    /\ {df[i].name : i \in 1..4} = {NULL, "", "Sunny Acres RV Park", "Sunny Acres RV Resort"}
    /\ df[1].name = "" /\ df[2].source = "yelp" /\ df[3].source = "osm"
    /\ master_records[1].name = "Sunny Acres RV Resort"
    /\ master_records[1].alternative_names = <<"Sunny Acres RV Resort", "Sunny Acres RV Park">>

\* C20: a run that finds no unprocessed raw listing completes normally and
\* leaves parks_master and parks_raw, the processed flags included, as they
\* were.
C20_NoUnprocessedIsNoOp ==
    [][(/\ pc \in {"idle", "done", "raised"}
        /\ Len(unprocessed_rows) = 0
        /\ runs' = runs + 1)
       => (pc' = "done" /\ parks_master' = parks_master /\ parks_raw' = parks_raw)]_vars

C20_Witness ==
    /\ pc = "done" /\ runs = 2 /\ df = <<>>
    /\ Len(parks_raw) = 2
    /\ \A k \in 1..Len(parks_raw) : parks_raw[k].is_processed
    /\ Cardinality(parks_master) = 2

\* are_duplicates of the rows at two indices of the frame, as find_duplicate_groups calls it
DuplicatesAt(i, j) == are_duplicates(df[i], df[j], NameThreshold, DistanceThreshold).is_dup

\* C21: the groups of find_duplicate_groups are stars around their first
\* member: every other member is a direct duplicate of it, no member that was
\* absorbed is the first member of a group, and for a block A, B, C with
\* A~B, B~C and A not~C the groups are {A, B} and {C}.
C21_StarShapedGroups ==
    pc = "grouped" =>
        /\ \A g \in 1..Len(all_duplicate_groups) :
              \A n \in 2..Len(all_duplicate_groups[g]) :
                  /\ DuplicatesAt(all_duplicate_groups[g][1], all_duplicate_groups[g][n])
                  /\ \A h \in 1..Len(all_duplicate_groups) :
                        all_duplicate_groups[h][1] # all_duplicate_groups[g][n]
        /\ (/\ Len(block_indices) = 3
            /\ DuplicatesAt(block_indices[1], block_indices[2])
            /\ DuplicatesAt(block_indices[2], block_indices[3])
            /\ ~DuplicatesAt(block_indices[1], block_indices[3])) =>
              all_duplicate_groups = <<<<block_indices[1], block_indices[2]>>, <<block_indices[3]>>>>

C21_Witness ==
    /\ pc = "grouped" /\ Len(block_indices) = 3
    /\ DuplicatesAt(block_indices[1], block_indices[2])
    /\ DuplicatesAt(block_indices[2], block_indices[3])
    /\ ~DuplicatesAt(block_indices[1], block_indices[3])
    /\ all_duplicate_groups = <<<<block_indices[1], block_indices[2]>>, <<block_indices[3]>>>>

\* the modelled names that are null, empty or made only of stopwords
NamelessTexts ==
    {n \in NameTexts :
        \/ n = NULL
        \/ \A w \in Range(split(lower(n))) : w \in stopwords}

\* C29: a record whose name is null, empty or made only of stopwords is not a
\* duplicate of any record of the frame, itself and its identical copies
\* included: are_duplicates returns (False, 0.0) in both orders, and
\* find_duplicate_groups gives it a group of its own.
C29_NamelessNeverDuplicate ==
    pc = "grouped" =>
        \A i \in 1..Len(df) :
            df[i].name \in NamelessTexts =>
                /\ \A j \in 1..Len(df) :
                      /\ are_duplicates(df[i], df[j], NameThreshold, DistanceThreshold) = NotDuplicate
                      /\ are_duplicates(df[j], df[i], NameThreshold, DistanceThreshold) = NotDuplicate
                /\ i \in Range(block_indices) =>
                      \E g \in 1..Len(all_duplicate_groups) : all_duplicate_groups[g] = <<i>>

C29_Witness ==
    /\ pc = "grouped" /\ Len(df) = 3 /\ Len(block_indices) = 3
    /\ df[1] = df[2] /\ df[1].name = "The Mobile Home Park"
    /\ df[3].name = "The RV Park"
    /\ Len(all_duplicate_groups) = 3

\* C30: after find_duplicate_groups the first members of two distinct groups
\* are not duplicates of each other, and no member of a group is a duplicate
\* of the first member of a group created before it.
C30_GroupsSeparatedFromEarlierSeeds ==
    pc = "grouped" =>
        \A g, h \in 1..Len(all_duplicate_groups) :
            g < h =>
                /\ ~DuplicatesAt(all_duplicate_groups[g][1], all_duplicate_groups[h][1])
                /\ ~DuplicatesAt(all_duplicate_groups[h][1], all_duplicate_groups[g][1])
                /\ \A n \in 1..Len(all_duplicate_groups[h]) :
                      ~DuplicatesAt(all_duplicate_groups[g][1], all_duplicate_groups[h][n])

C30_Witness ==
    /\ pc = "grouped" /\ Len(block_indices) = 3
    /\ Len(all_duplicate_groups) = 2
    /\ Len(all_duplicate_groups[2]) = 2
    /\ DuplicatesAt(all_duplicate_groups[2][1], all_duplicate_groups[2][2])

\* C22: every duplicate group lies within one block, so two loaded records
\* with different non-empty postal codes, or one with a postal code and one
\* without, are in different groups and in the provenance of different
\* master records.
C22_GroupsWithinOneBlock ==
    /\ pc \in {"detected", "consolidated", "marked", "done", "raised"} =>
          /\ \A g \in 1..Len(all_duplicate_groups) :
                \E b \in 1..Len(blocks) :
                    Range(all_duplicate_groups[g]) \subseteq Range(blocks[b].members)
          /\ \A i, j \in 1..Len(df) :
                (/\ df[i].zip_code # NULL /\ df[i].zip_code # ""
                 /\ df[j].zip_code # df[i].zip_code) =>
                    ~\E g \in 1..Len(all_duplicate_groups) :
                        {i, j} \subseteq Range(all_duplicate_groups[g])
    /\ AfterConsolidation =>
          \A i, j \in 1..Len(df) :
              (/\ df[i].zip_code # NULL /\ df[i].zip_code # ""
               /\ df[j].zip_code # df[i].zip_code) =>
                  MastersOf(df[i].external_id) \cap MastersOf(df[j].external_id) = {}

C22_Witness ==
    /\ pc = "consolidated" /\ Len(df) = 2
    /\ df[1].zip_code = "46201" /\ df[2].zip_code = "46202"
    /\ df[1].name = df[2].name
    /\ df[1].latitude = df[2].latitude /\ df[1].longitude = df[2].longitude
    /\ DuplicatesAt(1, 2)
    /\ Len(master_records) = 2

\* the blocks geo_cluster_<s>, as pairs <<s, members>>
GeoClusters ==
    UNION {{<<s, blocks[b].members>> :
                b \in {n \in 1..Len(blocks) : blocks[n].id = "geo_cluster_" \o ToString(s)}} :
           s \in 1..Len(df)}
DistanceAt(i, j) ==
    calculate_distance_meters(df[i].latitude[1], df[i].longitude[1],
                              df[j].latitude[1], df[j].longitude[1])

\* C23: a block geo_cluster_<s> starts with its seed s, and each of its
\* members has no postal code, has both coordinates and lies within
\* proximity_meters of s; a member is in the cluster of the first seed, in
\* index order, that it is in range of, and in no other block.
C23_GreedyGeoClusters ==
    pc = "blocked" =>
        /\ \A b \in 1..Len(blocks) :
              HasPrefix(blocks[b].id, "geo_cluster_") => \E c \in GeoClusters : c[2] = blocks[b].members
        /\ \A c \in GeoClusters :
              /\ c[2][1] = c[1]
              /\ \A n \in 1..Len(c[2]) :
                    LET m == c[2][n]
                    IN /\ df[m].zip_code = NULL \/ df[m].zip_code = ""
                       /\ df[m].latitude # NONE /\ df[m].longitude # NONE
                       /\ DistanceAt(c[1], m) <= ProximityMeters
                       /\ Occurrences(BlockMembers, m) = 1
                       /\ \A other \in GeoClusters :
                             DistanceAt(other[1], m) <= ProximityMeters => c[1] <= other[1]

C23_Witness ==
    /\ pc = "blocked" /\ Len(df) = 3
    /\ \A i \in 1..3 : df[i].zip_code = NULL /\ df[i].latitude # NONE /\ df[i].longitude # NONE
    /\ DistanceAt(1, 3) = ProximityMeters
    /\ DistanceAt(2, 3) < ProximityMeters
    /\ DistanceAt(1, 2) > ProximityMeters
    /\ GeoClusters = {<<1, <<1, 3>>>>, <<2, <<2>>>>}


PairAddressSimilarity == ratio(df[1].address_normalized, df[2].address_normalized)
PairAddressed == truthy(df[1].address_normalized) /\ truthy(df[2].address_normalized)

\* C24: when both records have coordinates and their distance is greater than
\* the distance threshold, are_duplicates returns (False, 0.0) in both orders,
\* whatever the names and the addresses are: identical names and identical
\* addresses do not make the pair a duplicate.
C24_TooFarNeverDuplicate ==
    (pc = "compared" /\ PairLocated /\ PairDistance > DistanceThreshold) =>
        /\ dup[1] = NotDuplicate
        /\ dup[2] = NotDuplicate

C24_Witness ==
    /\ pc = "compared" /\ PairLocated /\ PairDistance > DistanceThreshold
    /\ df[1].name = "Sunny Acres RV Park" /\ df[2].name = df[1].name
    /\ PairNameSimilarity.num = 100 * PairNameSimilarity.den
    /\ PairAddressed /\ df[1].address_normalized = df[2].address_normalized
    /\ dup = <<NotDuplicate, NotDuplicate>>

\* C25: when a coordinate is missing on a side and the name similarity is at
\* least the name threshold, the pair is a duplicate exactly when both
\* normalized addresses are non-empty and more than 80 similar (confidence
\* (0.6 * name + 0.4 * address) / 100) or, failing that, the name similarity
\* is at least 95 (confidence name / 100); an address similarity of exactly
\* 80 does not confirm the pair.
C25_UnlocatedPairRule ==
    (/\ pc = "compared" /\ ~PairLocated
     /\ PairNamed /\ PairNameSimilarity.num >= NameThreshold * PairNameSimilarity.den) =>
        LET name == PairNameSimilarity
            addr == PairAddressSimilarity
            confirmed == PairAddressed /\ addr.num > AddressThreshold * addr.den
            near_exact == name.num >= NearExactNameThreshold * name.den
        IN /\ dup[1].is_dup <=> (confirmed \/ near_exact)
           /\ confirmed =>
                SameScore(dup[1].confidence,
                          Fraction(6 * name.num * addr.den + 4 * addr.num * name.den,
                                   1000 * name.den * addr.den))
           /\ (~confirmed /\ near_exact) =>
                SameScore(dup[1].confidence, Fraction(name.num, 100 * name.den))
           /\ (~confirmed /\ ~near_exact) => dup[1] = NotDuplicate

C25_Witness ==
    /\ pc = "compared" /\ ~PairLocated
    /\ PairNamed /\ PairNameSimilarity.num >= NameThreshold * PairNameSimilarity.den
    /\ PairNameSimilarity.num < NearExactNameThreshold * PairNameSimilarity.den
    /\ PairAddressed
    /\ PairAddressSimilarity.num = AddressThreshold * PairAddressSimilarity.den
    /\ dup[1] = NotDuplicate


\* C28: a master record that gets the coordinate credit has confidence_score
\* at least 0.4/3 + 0.4 (16/30), so at least 0.5; hence a confidence_score
\* under 0.5 comes only with a latitude that `not master['latitude']` already
\* flags, and needs_manual_review is decided by the latitude and the address
\* alone.
C28_ConfidenceNeverDecidesReview ==
    pc = "consolidated" =>
        \A k \in 1..Len(master_records) :
            LET m == master_records[k]
                score == m.confidence_score
            IN /\ m.data_quality_flags.has_coordinates =>
                     /\ 30 * score.num >= 16 * score.den
                     /\ 2 * score.num >= score.den
               /\ 2 * score.num < score.den => ~lat_truthy(m.latitude)
               /\ m.needs_manual_review <=> (~lat_truthy(m.latitude) \/ ~truthy(m.address))

C28_Witness ==
    /\ pc = "consolidated"
    /\ Len(df) = 1
    /\ master_records[1].data_quality_flags.num_sources = 1
    /\ master_records[1].data_quality_flags.has_coordinates
    /\ 2 * master_records[1].confidence_score.num >= master_records[1].confidence_score.den
    /\ 3 * master_records[1].confidence_score.num < 2 * master_records[1].confidence_score.den
    /\ truthy(master_records[1].address)
    /\ ~master_records[1].needs_manual_review


\* the FetchResult that _lookup_owner_with_retry returned, once it has
Returned == returned[1]
\* the call of fetcher.lookup_owner before this state ended the function
ReturnedLookupResult == Returned = result /\ exception = NONE
\* a step that calls fetcher.lookup_owner
CallsLookupOwner == lookup_calls' = lookup_calls + 1

\* C26: _lookup_owner_with_retry terminates with a FetchResult and lets no
\* exception out; it calls fetcher.lookup_owner at most max_retries times; a
\* successful result and a failed one whose message has no "rate limit" are
\* returned by the iteration that got them; a further call follows only a
\* rate-limited result or a caught exception; and when no call ended the
\* function, the FetchResult returned is a failed one, after max_retries calls.
C26_RetryLoopTerminates ==
    /\ <>(pc = "returned")
    /\ [](/\ pc # "raised"
          /\ lookup_calls <= max_retries
          /\ pc = "returned" =>
                /\ returned # NONE
                /\ Returned.success \in BOOLEAN
                /\ Returned.success => ReturnedLookupResult
                /\ ~ReturnedLookupResult =>
                      /\ ~Returned.success
                      /\ lookup_calls = max_retries)
    /\ [][CallsLookupOwner =>
            /\ lookup_calls > 0 =>
                  \/ exception # NONE
                  \/ (~result.success /\ RateLimited[result.error_message])
            /\ (exception' = NONE /\ (result'.success \/ ~RateLimited[result'.error_message])) =>
                  (pc' = "returned" /\ returned' = <<result'>>)
            /\ pc' # "returned" =>
                  \/ exception' # NONE
                  \/ (~result'.success /\ RateLimited[result'.error_message])]_vars

C26_Witness ==
    /\ pc = "returned"
    /\ max_retries = 3 /\ lookup_calls = 3
    /\ wait_times = <<1, 3, 4>>
    /\ exception = NONE
    /\ ~Returned.success /\ ~ReturnedLookupResult


\* worker threads inside the try block of run_phaseN / run_export
Executing == {t \in 1..Len(threads) : threads[t].pc = "try"}

\* C27 (as claimed): at most one worker thread executes a phase at a time.
C27_OnePhaseAtATime == pc = "serving" => Cardinality(Executing) <= 1

====
